---- MODULE Spec2Model ----
(***************************************************************************)
(* ETL service: the batched, checkpointed pipeline (runETLPipeline and     *)
(* processSourceWithCheckpoint), the checkpoint store, the run ledger, the *)
(* cron scheduler's job wrapper and the HTTP triggers of the API server.   *)
(*                                                                         *)
(* Every await of the pipeline is one step of a run.  A store operation    *)
(* (connect, read, upsert, insert, delete) either completes or rejects; a  *)
(* rejection is drawn nondeterministically and counted in `faults`.        *)
(***************************************************************************)
EXTENDS Integers, Sequences, FiniteSets, Bags, TLC

----------------------------------------------------------------------------
(* Bounds of the model *)

\* number of pipeline runs that are started
MaxRuns == 2
\* number of store operations that reject
MaxFaults == 1
\* number of rateLimitedRequest invocations by concurrent callers
MaxCalls == 6
\* the clock stops at this time, in ms
MaxTime == 12000
\* the step of the clock, in ms
TickMs == 2500
\* the step of the clock over long pauses between requests, ms
LongTickMs == 32500

\* the number of jobs of the scheduler where their runs are not followed inside
MaxJobs == 6

\* where time has no end: the invocations pending at once, and the value up
\* to which the counters of the metrics are kept
MaxPending == 2

MaxCount == 1

\* the step of the clock there
ElapseMs == 2500

(* Program constants *)

BATCH_SIZE == 5

\* the order of the `sources` array of runETLPipeline
Sources == <<"coinpaprika", "csv", "coingecko">>

SourceNames == {Sources[n] : n \in 1..Len(Sources)}

RunIds == 1..MaxRuns

\* the collections runETLPipeline creates a unique index on
Collections == {"raw_crypto_data", "normalized_crypto_data"}

\* null: no watermark, no resumedFromBatch
Null == -1

\* the batchNum 'unknown' that the per-source catch of runETLPipeline records
Unknown == -2

----------------------------------------------------------------------------
(* Fetched data.  A record carries the parts of a unified record that the  *)
(* pipeline looks at: the symbol and timestamp of its natural key, and     *)
(* whether unifiedSchema.validate accepts it.  The source of the key is    *)
(* the source the fetcher stamps on every record it returns.               *)

Rec(sym, ts, ok) == [symbol |-> sym, timestamp |-> ts, valid |-> ok]

One == <<Rec(1, 1, TRUE)>>

Two == <<Rec(1, 1, TRUE), Rec(2, 2, TRUE)>>

\* two batches; record 3 fails validation; the second batch is older than the first
Six == <<Rec(1, 2, TRUE), Rec(2, 1, TRUE), Rec(3, 2, FALSE),
         Rec(4, 3, TRUE), Rec(5, 2, TRUE), Rec(6, 1, TRUE)>>

Twenty == [k \in 1..20 |-> Rec(k, 1, TRUE)]

FeedA == [s \in SourceNames |->
            IF s = "coinpaprika" THEN Six ELSE IF s = "csv" THEN Two ELSE <<>>]

FeedB == [s \in SourceNames |->
            IF s = "csv" THEN One ELSE IF s = "coingecko" THEN Two ELSE <<>>]

\* one source of 20 records, the others empty
FeedS3 == [s \in SourceNames |-> IF s = "csv" THEN Twenty ELSE <<>>]

Feeds == {FeedA, FeedB}

\* what the sources serve where runs overlap
FeedTiny == [s \in SourceNames |-> IF s = "coinpaprika" THEN One ELSE <<>>]

----------------------------------------------------------------------------
VARIABLES
    raw_crypto_data,         \* the raw collection: a bag of natural keys
    normalized_crypto_data,  \* the normalized collection: a bag of natural keys
    uniqueIndex,             \* per collection: the unique index on the natural key
    etlcheckpoints,          \* documents of the checkpoint collection
    etlruns,                 \* the run ledger, in insertion order
    etl_summaries,           \* run ids of the stored summaries
    mongoDb,                 \* DB/mongo.js: the handle getDb() returns is set
    FAULT_INJECTION,         \* process.env.FAULT_INJECTION === 'true'
    isRunning,               \* etlScheduler.js
    failureCount,            \* etlScheduler.js
    alerts,                  \* number of alert mails sent
    job,                     \* the run the scheduler's job awaits, 0 if none
    nextRun,                 \* number of runs started
    feed,                    \* what the three fetchers return
    faults,                  \* store operations that rejected so far
    run,                     \* per run: position and locals of runETLPipeline
    limiter,                 \* rateLimiter.js: rateLimiters[source] of one source
    cache,                   \* rateLimiter.js: expiresAt of cache.get(source), or Null
    throttleEventsTotal,     \* throttle_events_total{source}
    retryLatencySeconds,     \* retry_latency_seconds{source}: the observations, in ms
    now,                     \* Date.now(), in ms since the module was loaded
    calls,                   \* per rateLimitedRequest invocation of a caller
    nextCall,                \* number of invocations made
    admittedSince,           \* an observer: the requests admitted since a moment
    knownSchemas,            \* schemaDrift.js: schemaDriftDetector.knownSchemas
    schemaVersion,           \* schemaDrift.js: schemaDriftDetector.schemaVersion
    driftRun,                \* runETLPipeline: the locals that carry drift results
    driftLedger,             \* the mapping fields of the ledger entries
    reported,                \* per source: schema_version of its latest detectDrift
    similarity,              \* a calculateSimilarity call: its arguments and value
    csvRow                   \* a row of the CSV file on its way to the collections

vars == <<raw_crypto_data, normalized_crypto_data, uniqueIndex, etlcheckpoints,
          etlruns, etl_summaries, mongoDb, FAULT_INJECTION, isRunning,
          failureCount, alerts, job, nextRun, feed, faults, run, limiter, cache,
          throttleEventsTotal, retryLatencySeconds, now, calls, nextCall,
          admittedSince, knownSchemas, schemaVersion, driftRun, driftLedger, reported,
          similarity, csvRow>>

stores == <<raw_crypto_data, normalized_crypto_data, etlcheckpoints, etlruns,
            etl_summaries>>

scheduler == <<isRunning, failureCount, alerts, job>>

\* what no step of a run changes but the creation of the indexes
\* the state of the rate limiter module
gate == <<limiter, cache, throttleEventsTotal, retryLatencySeconds, now, calls,
          nextCall, admittedSince>>

\* the state of the schema drift module and of what calls it
schemaDrift == <<knownSchemas, schemaVersion, driftRun, driftLedger, reported,
                 similarity, csvRow>>

outside == <<feed, uniqueIndex, gate, schemaDrift>>

\* the state of the pipeline, its stores and its triggers
pipelineState == <<stores, uniqueIndex, mongoDb, FAULT_INJECTION, scheduler, nextRun,
                   feed, faults, run>>

etl == <<pipelineState, schemaDrift>>

----------------------------------------------------------------------------
(* Locals of one processSourceWithCheckpoint invocation *)

NewFrame ==
    [lastIndex |-> 0, watermark |-> Null, i |-> 0, j |-> 0, matched |-> FALSE,
     failedIds |-> <<>>, failedBatches |-> <<>>, validationErrors |-> 0,
     resumedFromBatch |-> Null, skippedCount |-> 0]

(* Locals of one runETLPipeline invocation *)

NewRun ==
    [pc |-> "idle", trigger |-> "none", data |-> [s \in SourceNames |-> <<>>],
     call |-> 0, srcIdx |-> 1, proc |-> [s \in SourceNames |-> NewFrame],
     results |-> <<>>, allFailedBatches |-> <<>>, resumeInfo |-> {},
     totalRowsProcessed |-> 0, totalErrors |-> 0, status |-> "none"]

Start ==
    /\ raw_crypto_data = EmptyBag
    /\ normalized_crypto_data = EmptyBag
    /\ etlcheckpoints = {}
    /\ etlruns = <<>>
    /\ etl_summaries = {}
    /\ mongoDb = FALSE
    /\ FAULT_INJECTION \in BOOLEAN
    /\ isRunning = FALSE
    /\ failureCount = 0
    /\ alerts = 0
    /\ job = 0
    /\ nextRun = 0
    /\ faults = 0
    /\ run = [r \in RunIds |-> NewRun]

\* no run has created the indexes yet
NoIndex == [c \in Collections |-> "absent"]

----------------------------------------------------------------------------
(* Pure helpers *)

Min(a, b) == IF a < b THEN a ELSE b

Max(a, b) == IF a > b THEN a ELSE b

SetMax(S) == CHOOSE x \in S : \A y \in S : y <= x

RECURSIVE SumOver(_, _)
\* results.reduce((sum, r) => sum + (r.<field> || 0), 0), for the sequence of values
SumOver(seq, n) == IF n = 0 THEN 0 ELSE seq[n] + SumOver(seq, n - 1)

RECURSIVE Flatten(_, _)
\* results.flatMap(r => r.failedIds), for the sequence of lists
Flatten(seq, n) == IF n = 0 THEN <<>> ELSE Flatten(seq, n - 1) \o seq[n]

\* { symbol, timestamp, source } of a validated record
keyFilter(rec, source) == <<rec.symbol, rec.timestamp, source>>

\* `${runId}_${source}`
\* a slip: the batch id of the earlier revision, the same for every run
BatchId_SourceOnly(runId, source) == <<0, source>>

BatchId(runId, source) == <<runId, source>>

\* Math.floor(data.length * 0.6)
FaultIndex(len) == (len * 6) \div 10

\* Math.floor(i / BATCH_SIZE)
BatchNum(i) == i \div BATCH_SIZE

\* data.slice(i, i + BATCH_SIZE).length
BatchLen(i, len) == Min(BATCH_SIZE, len - i)

\* a slip: the length of the batch alone
CheckpointIndex_BatchLengthOnly(i, batchLength) == batchLength

\* the index passed to saveCheckpoint after the batch that starts at i
CheckpointIndex(i, batchLength) == i + batchLength

RECURSIVE PassIndices(_, _)
\* the indices visited by for (i = start; i < data.length; i += BATCH_SIZE)
\* with batch = data.slice(i, i + BATCH_SIZE)
PassIndices(start, len) ==
    IF start >= len THEN {}
    ELSE (start .. start + BatchLen(start, len) - 1)
         \cup PassIndices(start + BATCH_SIZE, len)

----------------------------------------------------------------------------
(* Checkpoint store (Schedular/etlCheckpointService.js) *)

saveCheckpoint(store, batchId, lastProcessedIndex, source, runId) ==
    {c \in store : ~(c.batchId = batchId /\ c.source = source)} \cup
    {[batchId |-> batchId, source |-> source, runId |-> runId,
      lastProcessedIndex |-> lastProcessedIndex]}

getCheckpoint(store, batchId, source) ==
    LET found == {c \in store : c.batchId = batchId /\ c.source = source}
    IN  IF found = {} THEN 0 ELSE (CHOOSE c \in found : TRUE).lastProcessedIndex

\* a slip: the filter of deleteMany inverted, so the run's own documents stay
clearCheckpoints_KeepsOwn(store, runId) == {c \in store : c.runId = runId}

clearCheckpoints(store, runId) == {c \in store : c.runId # runId}

getAllCheckpoints(store, runId) == {c \in store : c.runId = runId}

(* Watermark: the greatest timestamp of the source in the normalized collection *)

getWatermark(normalized, source) ==
    LET ts == {k[2] : k \in {d \in BagToSet(normalized) : d[3] = source}}
    IN  IF ts = {} THEN Null ELSE SetMax(ts)

----------------------------------------------------------------------------
(* The collections of records and their unique index *)

Keys(coll) == BagToSet(coll)

\* a unique index cannot be built over documents that share a key
Buildable(coll) == \A k \in Keys(coll) : CopiesIn(k, coll) = 1

\* createIndex(..., { unique: true }): the state of the index afterwards; a
\* server that refuses the index keeps refusing it
createIndex(state, coll) ==
    IF state = "absent" /\ Buildable(coll) THEN "built" ELSE state


\* updateOne(keyFilter, { $set, $setOnInsert }, { upsert: true }) after its
\* query: a matched document is updated in place, else one is inserted
upsert(coll, key, matched) ==
    IF matched THEN coll ELSE coll (+) SetToBag({key})

----------------------------------------------------------------------------
(* Run ledger (Service/etlRunLogger.js) *)

\* the statuses the mongoose model EtlRun accepts
EtlRunStatusEnum == {"success", "failed"}

\* the document logETLRun builds; `via` tells which driver stored it
LedgerRecord(run_id, status, rowsProcessed, errors, failed_batches, resume_info, skipped_by_watermark) ==
    [run_id |-> run_id, status |-> status, rows_processed |-> rowsProcessed,
     errors |-> errors, failed_batches |-> failed_batches,
     resume_info |-> resume_info, duplicates_skipped |-> skipped_by_watermark,
     via |-> "native"]

\* what the mongoose schema of EtlRun keeps of the document
MongooseRecord(rec) ==
    [rec EXCEPT !.failed_batches = <<>>, !.resume_info = {},
                !.duplicates_skipped = 0, !.via = "mongoose"]

CanFail == faults < MaxFaults

\* how a logETLRun call can end: the native insert stores the document; the
\* native insert rejects and the mongoose fallback stores it; both reject.
\* With no handle the native insert is skipped and mongoose has no connection.
LogOutcomes(status) ==
    IF ~mongoDb THEN {"throw"}
    ELSE {"native"} \cup
         (IF CanFail THEN {"throw"} ELSE {}) \cup
         (IF CanFail /\ status \in EtlRunStatusEnum THEN {"mongoose"} ELSE {})

logETLRun(rec, out) ==
    /\ etlruns' = CASE out = "native"   -> Append(etlruns, rec)
                    [] out = "mongoose" -> Append(etlruns, MongooseRecord(rec))
                    [] OTHER            -> etlruns
    /\ faults' = IF out # "native" /\ mongoDb THEN faults + 1 ELSE faults

\* GET /stats: etlruns sorted by end_time descending, lastRun = runs[0], and
\* incremental.last_run_new_records = lastRun.rows_processed || 0
last_run_new_records(ledger) ==
    IF ledger = <<>> THEN 0 ELSE ledger[Len(ledger)].rows_processed

----------------------------------------------------------------------------
(* runETLPipeline: moving through the sources *)

Src(rr) == Sources[rr.srcIdx]

Frame(rr) == rr.proc[Src(rr)]

SetFrame(rr, f) == [rr EXCEPT !.proc[Src(rr)] = f]

\* the for loop over `sources` advances, or the loop ends
NextSource(rr) ==
    [rr EXCEPT !.srcIdx = @ + 1,
               !.pc = IF rr.srcIdx < Len(Sources) THEN "getCheckpoint" ELSE "summary"]

\* catch (error) of the per-source try
SourceFailed(rr, message) ==
    LET s == Src(rr)
        unknown == [batchNum |-> Unknown, error |-> message,
                    recordCount |-> Len(rr.data[s])]
    IN  NextSource(
          [rr EXCEPT
             !.results = Append(@,
                 [source |-> s, totalProcessed |-> 0, failedIds |-> <<>>,
                  validationErrors |-> 0, failedBatches |-> <<unknown>>,
                  resumedFromBatch |-> Null, skippedByWatermark |-> 0]),
             !.allFailedBatches = Append(@,
                 [source |-> s, batchNum |-> unknown.batchNum,
                  error |-> unknown.error, recordCount |-> unknown.recordCount])])

\* catch (err) of the batch try: record the batch locally and re-throw
BatchFailed(rr, message) ==
    LET f == Frame(rr)
        len == Len(rr.data[Src(rr)])
    IN  SourceFailed(
          SetFrame(rr, [f EXCEPT !.failedBatches = Append(@,
              [batchNum |-> BatchNum(f.i), error |-> message,
               recordCount |-> BatchLen(f.i, len)])]),
          message)

\* a slip: a source whose loop ends is recorded as a failed source
SourceDone_AsFailure(rr) == SourceFailed(rr, "no data")

\* processSourceWithCheckpoint returned: the try body after the await
SourceDone(rr) ==
    LET s == Src(rr)
        f == Frame(rr)
        len == Len(rr.data[s])
    IN  NextSource(
          [rr EXCEPT
             !.results = Append(@,
                 [source |-> s,
                  totalProcessed |-> len - f.lastIndex - f.skippedCount,
                  failedIds |-> f.failedIds,
                  validationErrors |-> f.validationErrors,
                  failedBatches |-> f.failedBatches,
                  resumedFromBatch |-> f.resumedFromBatch,
                  skippedByWatermark |-> f.skippedCount]),
             !.resumeInfo = IF f.resumedFromBatch # Null
                            THEN @ \cup {<<s, f.resumedFromBatch>>} ELSE @,
             !.allFailedBatches = @ \o
                 [n \in 1..Len(f.failedBatches) |->
                    [source |-> s, batchNum |-> f.failedBatches[n].batchNum,
                     error |-> f.failedBatches[n].error,
                     recordCount |-> f.failedBatches[n].recordCount]]])

Set(r, rr) == run' = [run EXCEPT ![r] = rr]

----------------------------------------------------------------------------
(* Triggers *)

\* a fresh runETLPipeline invocation: crypto.randomUUID() gives it an id no
\* other run has
Launch(trig) ==
    /\ nextRun < MaxRuns
    /\ nextRun' = nextRun + 1
    /\ Set(nextRun + 1, [NewRun EXCEPT !.pc = "connect", !.trigger = trig])

\* etlScheduler.js executeETLJob, up to its await: the cron tick and the call
\* on startup
executeETLJob ==
    \/ /\ isRunning
       /\ UNCHANGED vars
    \/ /\ ~isRunning
       /\ Launch("cron")
       /\ isRunning' = TRUE
       /\ job' = nextRun + 1
       /\ UNCHANGED <<stores, mongoDb, FAULT_INJECTION, failureCount, alerts,
                      outside, faults>>

\* a slip: the catch counts the failure but never resets the count
executeETLJobSettled_NoReset ==
    /\ job # 0
    /\ \/ /\ run[job].pc = "returned"
          /\ failureCount' = 0
          /\ alerts' = alerts
       \/ /\ run[job].pc = "threw"
          /\ failureCount' = failureCount + 1
          /\ alerts' = IF failureCount + 1 >= 3 THEN alerts + 1 ELSE alerts
    /\ isRunning' = FALSE
    /\ job' = 0
    /\ UNCHANGED <<stores, mongoDb, FAULT_INJECTION, nextRun, outside, faults, run>>

\* a slip: isRunning = false at the end of the try block instead of finally
executeETLJobSettled_LockKeptOnThrow ==
    /\ job # 0
    /\ \/ /\ run[job].pc = "returned"
          /\ failureCount' = 0
          /\ alerts' = alerts
          /\ isRunning' = FALSE
       \/ /\ run[job].pc = "threw"
          /\ failureCount' = IF failureCount + 1 >= 3 THEN 0 ELSE failureCount + 1
          /\ alerts' = IF failureCount + 1 >= 3 THEN alerts + 1 ELSE alerts
          /\ isRunning' = isRunning
    /\ job' = 0
    /\ UNCHANGED <<stores, mongoDb, FAULT_INJECTION, nextRun, outside, faults, run>>

\* executeETLJob after the await: the pipeline returned or threw
executeETLJobSettled ==
    /\ job # 0
    /\ \/ /\ run[job].pc = "returned"
          /\ failureCount' = 0
          /\ alerts' = alerts
       \/ /\ run[job].pc = "threw"
          /\ failureCount' = IF failureCount + 1 >= 3 THEN 0 ELSE failureCount + 1
          /\ alerts' = IF failureCount + 1 >= 3 THEN alerts + 1 ELSE alerts
    /\ isRunning' = FALSE
    /\ job' = 0
    /\ UNCHANGED <<stores, mongoDb, FAULT_INJECTION, nextRun, outside, faults, run>>

\* The scheduler over many jobs, the run of a job seen from executeETLJob
\* only: run[1] holds the run of the current job.

\* executeETLJob up to its await, as the cron callback calls it
cronJob ==
    \/ /\ isRunning
       /\ UNCHANGED vars
    \/ /\ ~isRunning
       /\ nextRun < MaxJobs
       /\ nextRun' = nextRun + 1
       /\ run' = [run EXCEPT ![1] = [NewRun EXCEPT !.pc = "connect",
                                                   !.trigger = "cron"]]
       /\ isRunning' = TRUE
       /\ job' = 1
       /\ UNCHANGED <<stores, mongoDb, FAULT_INJECTION, failureCount, alerts,
                      outside, faults>>

\* await runETLPipeline() settles: the promise resolves or rejects
runETLPipelineSettles ==
    /\ job # 0
    /\ run[job].pc = "connect"
    /\ \E outcome \in {"returned", "threw"} :
          run' = [run EXCEPT ![job].pc = outcome]
    /\ UNCHANGED <<stores, mongoDb, FAULT_INJECTION, scheduler, nextRun, outside,
                   faults>>

\* api/server.js POST /refresh: setImmediate(runETLPipeline)
PostRefresh ==
    /\ Launch("refresh")
    /\ UNCHANGED <<stores, mongoDb, FAULT_INJECTION, scheduler, outside, faults>>

\* api/server.js POST /etl/refresh: setImmediate(runETLPipeline)
PostEtlRefresh ==
    /\ Launch("etl_refresh")
    /\ UNCHANGED <<stores, mongoDb, FAULT_INJECTION, scheduler, outside, faults>>

Quiet == \A r \in RunIds : run[r].pc \in {"idle", "returned", "threw"}

\* the process is restarted between runs, with the other FAULT_INJECTION
\* setting: the module state starts over, the stores are kept
Restart ==
    /\ Quiet
    /\ job = 0
    /\ FAULT_INJECTION' = ~FAULT_INJECTION
    /\ mongoDb' = FALSE
    /\ isRunning' = FALSE
    /\ failureCount' = 0
    /\ UNCHANGED <<stores, alerts, job, nextRun, outside, faults, run>>

----------------------------------------------------------------------------
(* runETLPipeline, one await at a time *)

\* await connectMongoDB()
Connect(r) ==
    /\ run[r].pc = "connect"
    /\ \/ /\ mongoDb' = TRUE
          /\ Set(r, [run[r] EXCEPT !.pc = "createIndex"])
          /\ UNCHANGED faults
       \/ /\ CanFail
          /\ faults' = faults + 1
          /\ Set(r, [run[r] EXCEPT !.pc = "catch"])
          /\ UNCHANGED mongoDb
    /\ UNCHANGED <<stores, FAULT_INJECTION, scheduler, nextRun, outside>>

\* "Create unique indexes to prevent duplicates": the two awaited createIndex
\* calls in one try; the catch swallows a rejection, and a rejection of the
\* first call skips the second
CreateIndex(r) ==
    LET raw == createIndex(uniqueIndex["raw_crypto_data"], raw_crypto_data)
        normalized == createIndex(uniqueIndex["normalized_crypto_data"],
                                  normalized_crypto_data)
    IN  /\ run[r].pc = "createIndex"
        /\ \/ /\ uniqueIndex' =
                    IF raw = "built"
                    THEN [c \in Collections |->
                            IF c = "raw_crypto_data" THEN raw ELSE normalized]
                    ELSE uniqueIndex
              /\ UNCHANGED faults
           \/ /\ CanFail
              /\ \E c \in Collections : uniqueIndex[c] = "absent"
              /\ faults' = faults + 1
              /\ \/ UNCHANGED uniqueIndex
                 \/ /\ raw = "built"
                    /\ uniqueIndex' = [uniqueIndex EXCEPT !["raw_crypto_data"] = raw]
        /\ Set(r, [run[r] EXCEPT !.pc = "fetch"])
        /\ UNCHANGED <<stores, mongoDb, FAULT_INJECTION, scheduler, nextRun, feed,
                       gate, schemaDrift>>

\* await Promise.all([fetchCoinPaprikaData(), fetchCSVData(), fetchCoinGeckoData()])
Fetch(r) ==
    /\ run[r].pc = "fetch"
    /\ \/ /\ Set(r, [run[r] EXCEPT !.data = feed, !.pc = "getCheckpoint"])
          /\ UNCHANGED faults
       \/ /\ CanFail
          /\ faults' = faults + 1
          /\ Set(r, [run[r] EXCEPT !.pc = "catch"])
    /\ UNCHANGED <<stores, mongoDb, FAULT_INJECTION, scheduler, nextRun, outside>>

\* processSourceWithCheckpoint: await getCheckpoint(batchId, source)
ReadCheckpoint(r) ==
    LET rr == run[r]
        s == Src(rr)
    IN  /\ rr.pc = "getCheckpoint"
        /\ \/ /\ Set(r, [SetFrame(rr, [NewFrame EXCEPT !.lastIndex =
                           getCheckpoint(etlcheckpoints, BatchId(r, s), s)])
                         EXCEPT !.pc = "getWatermark"])
              /\ UNCHANGED faults
           \/ /\ CanFail
              /\ faults' = faults + 1
              /\ Set(r, SourceFailed(rr, "getCheckpoint rejected"))
        /\ UNCHANGED <<stores, mongoDb, FAULT_INJECTION, scheduler, nextRun, outside>>

\* processSourceWithCheckpoint: await getWatermark(source), up to the for loop
ReadWatermark(r) ==
    LET rr == run[r]
        f == Frame(rr)
    IN  /\ rr.pc = "getWatermark"
        /\ \/ /\ Set(r, [SetFrame(rr,
                          [f EXCEPT !.watermark =
                                      getWatermark(normalized_crypto_data, Src(rr)),
                                    !.resumedFromBatch =
                                      IF f.lastIndex > 0 THEN BatchNum(f.lastIndex)
                                      ELSE Null,
                                    !.i = f.lastIndex])
                         EXCEPT !.pc = "batch"])
              /\ UNCHANGED faults
           \/ /\ CanFail
              /\ faults' = faults + 1
              /\ Set(r, SourceFailed(rr, "getWatermark rejected"))
        /\ UNCHANGED <<stores, mongoDb, FAULT_INJECTION, scheduler, nextRun, outside>>

\* the head of the batch loop: the loop ends, the injected fault throws, or
\* the batch is sliced
BatchStart(r) ==
    LET rr == run[r]
        f == Frame(rr)
        len == Len(rr.data[Src(rr)])
    IN  /\ rr.pc = "batch"
        /\ \/ /\ f.i >= len
              /\ Set(r, SourceDone(rr))
           \/ /\ f.i < len
              /\ FAULT_INJECTION /\ f.i >= FaultIndex(len)
              /\ Set(r, BatchFailed(rr, "Simulated crash"))
           \/ /\ f.i < len
              /\ ~(FAULT_INJECTION /\ f.i >= FaultIndex(len))
              /\ Set(r, [SetFrame(rr, [f EXCEPT !.j = f.i]) EXCEPT !.pc = "record"])
        /\ UNCHANGED <<stores, mongoDb, FAULT_INJECTION, scheduler, nextRun, outside,
                       faults>>

\* the record the inner loop is at
Current(rr) == rr.data[Src(rr)][Frame(rr).j + 1]

\* a slip: the bound of the record loop one short
InBatch_OneShort(rr) ==
    Frame(rr).j < Frame(rr).i + BatchLen(Frame(rr).i, Len(rr.data[Src(rr)])) - 1

InBatch(rr) ==
    Frame(rr).j < Frame(rr).i + BatchLen(Frame(rr).i, Len(rr.data[Src(rr)]))

\* a slip: value.timestamp < watermark
BelowWatermark_Strict(rr) ==
    Frame(rr).watermark # Null /\ Current(rr).timestamp < Frame(rr).watermark

\* a slip: prefix-wise skipping, up to the last record that is not newer
\* than the watermark
BelowWatermark_Prefix(rr) ==
    /\ Frame(rr).watermark # Null
    /\ \E n \in (Frame(rr).j + 1)..Len(rr.data[Src(rr)]) :
          rr.data[Src(rr)][n].timestamp <= Frame(rr).watermark

BelowWatermark(rr) ==
    Frame(rr).watermark # Null /\ Current(rr).timestamp <= Frame(rr).watermark

NextRecord(rr) == [SetFrame(rr, [Frame(rr) EXCEPT !.j = @ + 1]) EXCEPT !.pc = "record"]

\* catch (err) of the per-record try
RecordFailed(rr) ==
    NextRecord(SetFrame(rr, [Frame(rr) EXCEPT
                               !.failedIds = Append(@, Current(rr).symbol)]))

\* a record that is not written: it fails validation or is not newer than the
\* watermark
SkipRecord(r) ==
    LET rr == run[r]
        f == Frame(rr)
    IN  /\ rr.pc = "record"
        /\ InBatch(rr)
        /\ \/ /\ ~Current(rr).valid
              /\ Set(r, NextRecord(SetFrame(rr,
                          [f EXCEPT !.validationErrors = @ + 1])))
           \/ /\ Current(rr).valid
              /\ BelowWatermark(rr)
              /\ Set(r, NextRecord(SetFrame(rr, [f EXCEPT !.skippedCount = @ + 1])))
        /\ UNCHANGED <<stores, mongoDb, FAULT_INJECTION, scheduler, nextRun, outside,
                       faults>>

HasIndex(c) == uniqueIndex[c] = "built"

\* An upsert under the unique index is one step.  Without the index its query
\* and its insert are two steps: another run's insert of the same key can fall
\* between them.  An index built between the two makes the insert reject with
\* a duplicate key error.

\* a slip: the rejected raw write is not caught before the normalized write
WriteRaw_RejectionFallsThrough(r) ==
    LET rr == run[r]
        f == Frame(rr)
        key == keyFilter(Current(rr), Src(rr))
    IN  /\ \/ /\ rr.pc = "record"
              /\ InBatch(rr)
              /\ Current(rr).valid
              /\ ~BelowWatermark(rr)
              /\ \/ /\ HasIndex("raw_crypto_data")
                    /\ raw_crypto_data' =
                          upsert(raw_crypto_data, key, BagIn(key, raw_crypto_data))
                    /\ Set(r, [rr EXCEPT !.pc = "normalized"])
                    /\ UNCHANGED faults
                 \/ /\ ~HasIndex("raw_crypto_data")
                    /\ Set(r, [SetFrame(rr, [f EXCEPT !.matched =
                                                BagIn(key, raw_crypto_data)])
                               EXCEPT !.pc = "rawInsert"])
                    /\ UNCHANGED <<raw_crypto_data, faults>>
                 \/ /\ CanFail
                    /\ faults' = faults + 1
                    /\ Set(r, [rr EXCEPT !.pc = "normalized"])
                    /\ UNCHANGED raw_crypto_data
           \/ /\ rr.pc = "rawInsert"
              /\ IF HasIndex("raw_crypto_data") /\ ~f.matched /\ BagIn(key, raw_crypto_data)
                 THEN /\ Set(r, RecordFailed(rr))
                      /\ UNCHANGED raw_crypto_data
                 ELSE /\ raw_crypto_data' = upsert(raw_crypto_data, key, f.matched)
                      /\ Set(r, [rr EXCEPT !.pc = "normalized"])
              /\ UNCHANGED faults
        /\ UNCHANGED <<normalized_crypto_data, etlcheckpoints, etlruns,
                       etl_summaries, mongoDb, FAULT_INJECTION, scheduler, nextRun,
                       outside>>

\* await raw_crypto_data.updateOne(keyFilter, ..., { upsert: true })
WriteRaw(r) ==
    LET rr == run[r]
        f == Frame(rr)
        key == keyFilter(Current(rr), Src(rr))
    IN  /\ \/ /\ rr.pc = "record"
              /\ InBatch(rr)
              /\ Current(rr).valid
              /\ ~BelowWatermark(rr)
              /\ \/ /\ HasIndex("raw_crypto_data")
                    /\ raw_crypto_data' =
                          upsert(raw_crypto_data, key, BagIn(key, raw_crypto_data))
                    /\ Set(r, [rr EXCEPT !.pc = "normalized"])
                    /\ UNCHANGED faults
                 \/ /\ ~HasIndex("raw_crypto_data")
                    /\ Set(r, [SetFrame(rr, [f EXCEPT !.matched =
                                                BagIn(key, raw_crypto_data)])
                               EXCEPT !.pc = "rawInsert"])
                    /\ UNCHANGED <<raw_crypto_data, faults>>
                 \/ /\ CanFail
                    /\ faults' = faults + 1
                    /\ Set(r, RecordFailed(rr))
                    /\ UNCHANGED raw_crypto_data
           \/ /\ rr.pc = "rawInsert"
              /\ IF HasIndex("raw_crypto_data") /\ ~f.matched /\ BagIn(key, raw_crypto_data)
                 THEN /\ Set(r, RecordFailed(rr))
                      /\ UNCHANGED raw_crypto_data
                 ELSE /\ raw_crypto_data' = upsert(raw_crypto_data, key, f.matched)
                      /\ Set(r, [rr EXCEPT !.pc = "normalized"])
              /\ UNCHANGED faults
        /\ UNCHANGED <<normalized_crypto_data, etlcheckpoints, etlruns,
                       etl_summaries, mongoDb, FAULT_INJECTION, scheduler, nextRun,
                       outside>>

\* await normalized_crypto_data.updateOne(keyFilter, ..., { upsert: true })
WriteNormalized(r) ==
    LET rr == run[r]
        f == Frame(rr)
        key == keyFilter(Current(rr), Src(rr))
    IN  /\ \/ /\ rr.pc = "normalized"
              /\ \/ /\ HasIndex("normalized_crypto_data")
                    /\ normalized_crypto_data' =
                          upsert(normalized_crypto_data, key, BagIn(key, normalized_crypto_data))
                    /\ Set(r, NextRecord(rr))
                    /\ UNCHANGED faults
                 \/ /\ ~HasIndex("normalized_crypto_data")
                    /\ Set(r, [SetFrame(rr, [f EXCEPT !.matched =
                                                BagIn(key, normalized_crypto_data)])
                               EXCEPT !.pc = "normalizedInsert"])
                    /\ UNCHANGED <<normalized_crypto_data, faults>>
                 \/ /\ CanFail
                    /\ faults' = faults + 1
                    /\ Set(r, RecordFailed(rr))
                    /\ UNCHANGED normalized_crypto_data
           \/ /\ rr.pc = "normalizedInsert"
              /\ IF HasIndex("normalized_crypto_data") /\ ~f.matched /\ BagIn(key, normalized_crypto_data)
                 THEN /\ Set(r, RecordFailed(rr))
                      /\ UNCHANGED normalized_crypto_data
                 ELSE /\ normalized_crypto_data' = upsert(normalized_crypto_data, key, f.matched)
                      /\ Set(r, NextRecord(rr))
              /\ UNCHANGED faults
        /\ UNCHANGED <<raw_crypto_data, etlcheckpoints, etlruns, etl_summaries,
                       mongoDb, FAULT_INJECTION, scheduler, nextRun, outside>>

\* await saveCheckpoint(batchId, i + batch.length, source, runId), then i += BATCH_SIZE
SaveCheckpoint(r) ==
    LET rr == run[r]
        f == Frame(rr)
        s == Src(rr)
        len == Len(rr.data[s])
    IN  /\ rr.pc = "record"
        /\ ~InBatch(rr)
        /\ \/ /\ etlcheckpoints' =
                    saveCheckpoint(etlcheckpoints, BatchId(r, s),
                                   CheckpointIndex(f.i, BatchLen(f.i, len)), s, r)
              /\ Set(r, [SetFrame(rr, [f EXCEPT !.i = @ + BATCH_SIZE])
                         EXCEPT !.pc = "batch"])
              /\ UNCHANGED faults
           \/ /\ CanFail
              /\ faults' = faults + 1
              /\ Set(r, BatchFailed(rr, "saveCheckpoint rejected"))
              /\ UNCHANGED etlcheckpoints
        /\ UNCHANGED <<raw_crypto_data, normalized_crypto_data, etlruns,
                       etl_summaries, mongoDb, FAULT_INJECTION, scheduler, nextRun,
                       outside>>

----------------------------------------------------------------------------
(* runETLPipeline after the sources *)

Field(results, Get(_)) == [n \in 1..Len(results) |-> Get(results[n])]

TotalProcessedOf(res) == res.totalProcessed

ValidationErrorsOf(res) == res.validationErrors

FailedIdsOf(res) == res.failedIds

SkippedOf(res) == res.skippedByWatermark

\* "Collect metrics": the totals of the run
Collected(rr) ==
    LET n == Len(rr.results)
        failedIdsAll == Flatten(Field(rr.results, FailedIdsOf), n)
        totalValidationErrors == SumOver(Field(rr.results, ValidationErrorsOf), n)
    IN  [rr EXCEPT
           !.totalRowsProcessed = SumOver(Field(rr.results, TotalProcessedOf), n),
           !.totalErrors = Len(failedIdsAll) + totalValidationErrors,
           !.status = IF Len(rr.allFailedBatches) > 0 THEN "partial_success"
                      ELSE "success"]

\* the metrics are collected, then await generateAndStoreETLSummary(summary)
StoreSummary(r) ==
    LET rr == Collected(run[r])
    IN  /\ run[r].pc = "summary"
        /\ \/ /\ etl_summaries' = etl_summaries \cup {r}
              /\ Set(r, [rr EXCEPT !.pc = "logETLRun"])
              /\ UNCHANGED faults
           \/ /\ CanFail
              /\ faults' = faults + 1
              /\ Set(r, [rr EXCEPT !.pc = "catch"])
              /\ UNCHANGED etl_summaries
        /\ UNCHANGED <<raw_crypto_data, normalized_crypto_data, etlcheckpoints,
                       etlruns, mongoDb, FAULT_INJECTION, scheduler, nextRun, outside>>

\* a slip: the checkpoints are cleared whatever the status
AfterLogRun_AlwaysClear(status) == "clearCheckpoints"

\* "Clear checkpoints on successful completion": if (!isPartialSuccess)
AfterLogRun(status) ==
    IF status = "partial_success" THEN "returned" ELSE "clearCheckpoints"

\* await logETLRun({ run_id, status, ... }) of the try block
LogRun(r) ==
    LET rr == run[r]
        rec == LedgerRecord(r, rr.status, rr.totalRowsProcessed, rr.totalErrors,
                   rr.allFailedBatches, rr.resumeInfo,
                   SumOver(Field(rr.results, SkippedOf), Len(rr.results)))
    IN  /\ rr.pc = "logETLRun"
        /\ \E out \in LogOutcomes(rr.status) :
              /\ logETLRun(rec, out)
              /\ Set(r, [rr EXCEPT !.pc =
                           IF out = "throw" THEN "catch"
                           ELSE AfterLogRun(rr.status)])
        /\ UNCHANGED <<raw_crypto_data, normalized_crypto_data, etlcheckpoints,
                       etl_summaries, mongoDb, FAULT_INJECTION, scheduler, nextRun,
                       outside>>

\* await clearCheckpoints(runId), then return summary
ClearCheckpoints(r) ==
    /\ run[r].pc = "clearCheckpoints"
    /\ \/ /\ etlcheckpoints' = clearCheckpoints(etlcheckpoints, r)
          /\ Set(r, [run[r] EXCEPT !.pc = "returned"])
          /\ UNCHANGED faults
       \/ /\ CanFail
          /\ faults' = faults + 1
          /\ Set(r, [run[r] EXCEPT !.pc = "catch"])
          /\ UNCHANGED etlcheckpoints
    /\ UNCHANGED <<raw_crypto_data, normalized_crypto_data, etlruns, etl_summaries,
                   mongoDb, FAULT_INJECTION, scheduler, nextRun, outside>>

\* catch (error) of runETLPipeline: await logETLRun({ status: 'failed', ... }),
\* then throw; an error of logETLRun itself leaves the function the same way
Catch(r) ==
    LET rr == run[r]
        rec == LedgerRecord(r, "failed", rr.totalRowsProcessed, rr.totalErrors + 1,
                   rr.allFailedBatches, rr.resumeInfo, 0)
    IN  /\ rr.pc = "catch"
        /\ \E out \in LogOutcomes("failed") : logETLRun(rec, out)
        /\ Set(r, [rr EXCEPT !.pc = "threw"])
        /\ UNCHANGED <<raw_crypto_data, normalized_crypto_data, etlcheckpoints,
                       etl_summaries, mongoDb, FAULT_INJECTION, scheduler, nextRun,
                       outside>>

----------------------------------------------------------------------------
(* Utility/rateLimiter.js: the token bucket of one source.  Times are in ms. *)

\* Config/config.js rateLimits
RateLimits ==
    [coinpaprika |-> [requestsPerMinute |-> 10, burstCapacity |-> 15,
                      retryBackoffMs |-> 2000],
     coingecko   |-> [requestsPerMinute |-> 3, burstCapacity |-> 5,
                      retryBackoffMs |-> 5000]]

\* a source of 3 requests per minute whose burst capacity is 3
ThreePerMinute ==
    [requestsPerMinute |-> 3, burstCapacity |-> 3, retryBackoffMs |-> 5000]

STD_TTL_MS == 60000

\* the number of requests testSource fires at the source of 3 per minute
TestRequests == 5

CallIds == 1..Max(MaxCalls, TestRequests)

\* rateLimiters[source] as the module builds it when it is loaded
NewLimiter(sourceConfig) ==
    [limit |-> sourceConfig.requestsPerMinute,
     burstCapacity |-> sourceConfig.burstCapacity,
     interval |-> 60000,
     tokens |-> sourceConfig.burstCapacity,
     lastRefill |-> 0,
     retryBackoffMs |-> sourceConfig.retryBackoffMs]

NewCall == [pc |-> "idle", throttled |-> 0, slept |-> 0, requests |-> 0,
            retryStart |-> 0, wakeAt |-> 0, result |-> "none"]

\* nobody counts the admitted requests
NotCounting == [open |-> FALSE, from |-> 0, admitted |-> 0]

\* the module is loaded with the configuration of one source
Loaded(sourceConfig) ==
    /\ limiter = NewLimiter(sourceConfig)
    /\ cache = Null
    /\ throttleEventsTotal = 0
    /\ retryLatencySeconds = [count |-> 0, sum |-> 0]
    /\ now = 0
    /\ calls = [c \in CallIds |-> NewCall]
    /\ nextCall = 0
    /\ admittedSince = NotCounting

\* "Token bucket refill"
Refill(lim, t) ==
    LET timeSinceRefill == t - lim.lastRefill
        tokensToAdd == (timeSinceRefill * lim.limit) \div lim.interval
    IN  IF tokensToAdd > 0
        THEN [lim EXCEPT !.tokens = Min(lim.burstCapacity, lim.tokens + tokensToAdd),
                         !.lastRefill = t]
        ELSE lim

\* a slip: the expiry of the entry is never looked at
cacheGet_NeverExpires(entry, t) == entry

\* cacheGet: the entry, dropped once it has expired
cacheGet(entry, t) == IF entry # Null /\ t > entry THEN Null ELSE entry

\* cacheSet: the entry expires STD_TTL_MS from now
cacheSet(t) == t + STD_TTL_MS

\* a slip: the token is consumed without the test for an empty bucket
Admitted_Always(lim) == TRUE

\* if (limiter.tokens <= 0) { throttle } else { consume a token }
Admitted(lim) == lim.tokens > 0

\* rateLimitedRequest from its first line to its first await or its return,
\* at time t on the bucket lim0 and the cache entry, for an invocation whose
\* record so far is call: what it leaves
bucketCheck(lim0, entry, call, t) ==
    LET lim == Refill(lim0, t)
    IN  IF Admitted(lim)
        THEN [limiter |-> [lim EXCEPT !.tokens = @ - 1],
              cache |-> entry,
              call |-> [call EXCEPT !.pc = "axios.get", !.requests = @ + 1],
              admitted |-> TRUE]
        ELSE [limiter |-> lim,
              cache |-> cacheGet(entry, t),
              call |-> IF cacheGet(entry, t) # Null
                       THEN [call EXCEPT !.pc = "done", !.throttled = @ + 1,
                                         !.result = "cachedData"]
                       ELSE [call EXCEPT !.pc = "setTimeout", !.throttled = @ + 1,
                                         !.retryStart = t,
                                         !.wakeAt = t + lim.retryBackoffMs],
              admitted |-> FALSE]

\* the same for the invocation c, on the state of the module
rateLimitedRequest(c, call) ==
    LET left == bucketCheck(limiter, cache, call, now)
    IN  /\ limiter' = left.limiter
        /\ cache' = left.cache
        /\ calls' = [calls EXCEPT ![c] = left.call]
        /\ throttleEventsTotal' =
              IF left.admitted THEN throttleEventsTotal ELSE throttleEventsTotal + 1
        /\ admittedSince' = IF left.admitted /\ admittedSince.open
                             THEN [admittedSince EXCEPT !.admitted = @ + 1]
                             ELSE admittedSince

\* a caller invokes rateLimitedRequest while earlier invocations may be pending:
\* the fetchers of overlapping runs
Invoke ==
    /\ nextCall < MaxCalls
    /\ nextCall' = nextCall + 1
    /\ rateLimitedRequest(nextCall + 1, NewCall)
    /\ UNCHANGED <<retryLatencySeconds, now, etl>>

\* testRateLimiter.js testSource: the loop awaits each request before the next
testSource ==
    /\ nextCall < TestRequests
    /\ \A c \in 1..nextCall : calls[c].pc = "done"
    /\ nextCall' = nextCall + 1
    /\ rateLimitedRequest(nextCall + 1, NewCall)
    /\ UNCHANGED <<retryLatencySeconds, now, etl>>

\* the timer of the backoff fires: the latency is observed and the function
\* calls itself
Wake(c) ==
    /\ calls[c].pc = "setTimeout"
    /\ now >= calls[c].wakeAt
    /\ retryLatencySeconds' =
          [count |-> retryLatencySeconds.count + 1,
           sum |-> retryLatencySeconds.sum + (now - calls[c].retryStart)]
    /\ rateLimitedRequest(c, [calls[c] EXCEPT !.slept = @ + 1])
    /\ UNCHANGED <<now, nextCall, etl>>

\* a slip: the catch gives the token back to the bucket
Respond_ReturnsToken(c) ==
    /\ calls[c].pc = "axios.get"
    /\ \/ /\ cache' = cacheSet(now)
          /\ calls' = [calls EXCEPT ![c] =
                         [@ EXCEPT !.pc = "done", !.result = "response.data"]]
          /\ UNCHANGED limiter
       \/ /\ calls' = [calls EXCEPT ![c] = [@ EXCEPT !.pc = "done", !.result = "[]"]]
          /\ limiter' = [limiter EXCEPT !.tokens = @ + 1]
          /\ UNCHANGED cache
    /\ UNCHANGED <<throttleEventsTotal, retryLatencySeconds, now, nextCall,
                   admittedSince, etl>>

\* await axios.get(url) settles: the response is cached and returned, or the
\* error is caught and [] returned
Respond(c) ==
    /\ calls[c].pc = "axios.get"
    /\ \/ /\ cache' = cacheSet(now)
          /\ calls' = [calls EXCEPT ![c] =
                         [@ EXCEPT !.pc = "done", !.result = "response.data"]]
       \/ /\ calls' = [calls EXCEPT ![c] = [@ EXCEPT !.pc = "done", !.result = "[]"]]
          /\ UNCHANGED cache
    /\ UNCHANGED <<limiter, throttleEventsTotal, retryLatencySeconds, now, nextCall,
                   admittedSince, etl>>

\* time passes
Tick ==
    /\ now + TickMs <= MaxTime
    /\ now' = now + TickMs
    /\ UNCHANGED <<limiter, cache, throttleEventsTotal, retryLatencySeconds, calls,
                   nextCall, admittedSince, etl>>

\* a long pause: no caller comes for a while
Idle ==
    /\ now + LongTickMs <= STD_TTL_MS + MaxTime
    /\ now' = now + LongTickMs
    /\ UNCHANGED <<limiter, cache, throttleEventsTotal, retryLatencySeconds, calls,
                   nextCall, admittedSince, etl>>

\* an observer of the source starts counting the requests it admits
Observe ==
    /\ ~admittedSince.open
    /\ admittedSince' = [open |-> TRUE, from |-> now, admitted |-> 0]
    /\ UNCHANGED <<limiter, cache, throttleEventsTotal, retryLatencySeconds, now,
                   calls, nextCall, etl>>

Gate == \E c \in CallIds : Wake(c) \/ Respond(c)

\* The limiter where time has no end.  Date.now() is only read in
\* differences, so the clock is kept at now and the instants stored are
\* moved back as time passes: an instant is its distance from now.  An
\* invocation that has returned leaves its place to a new one, and what the
\* model notes down about an invocation (throttled, slept, requests) is not
\* kept.  The counters of the metrics are kept up to MaxCount, and a retry
\* latency is observed as the backoff whatever the delay of the timer.

\* the age of lastRefill from which the refill fills the bucket whatever it is
RefillFull(lim) == (lim.burstCapacity * lim.interval + lim.limit - 1) \div lim.limit

Pending == 1..MaxPending

UpTo(n) == Min(n, MaxCount)

KeptCall(call) ==
    [call EXCEPT !.throttled = 0, !.slept = 0, !.requests = 0,
                 !.retryStart = IF call.pc = "setTimeout" THEN @ ELSE 0,
                 !.wakeAt = IF call.pc = "setTimeout" THEN @ ELSE 0]

\* what bucketCheck leaves, put on the state of the module for the invocation c
Leave(c, left) ==
    /\ limiter' = left.limiter
    /\ cache' = left.cache
    /\ calls' = [calls EXCEPT ![c] = KeptCall(left.call)]
    /\ throttleEventsTotal' =
          IF left.admitted THEN throttleEventsTotal ELSE UpTo(throttleEventsTotal + 1)
    /\ UNCHANGED admittedSince

\* a caller invokes rateLimitedRequest for the configured source
Call(c) ==
    /\ calls[c].pc \in {"idle", "done"}
    /\ Leave(c, bucketCheck(limiter, cache, NewCall, now))
    /\ UNCHANGED <<retryLatencySeconds, now, nextCall, etl>>

\* a caller invokes rateLimitedRequest for a source that is not configured:
\* if (!limiter) throw
CallUnknown(c) ==
    /\ calls[c].pc \in {"idle", "done"}
    /\ calls' = [calls EXCEPT ![c] =
                   [NewCall EXCEPT !.pc = "done", !.result = "Unknown source"]]
    /\ UNCHANGED <<limiter, cache, throttleEventsTotal, retryLatencySeconds, now,
                   nextCall, admittedSince, etl>>

\* the timer of the backoff fires, as in Wake
Retry(c) ==
    /\ calls[c].pc = "setTimeout"
    /\ now >= calls[c].wakeAt
    /\ retryLatencySeconds' =
          [count |-> UpTo(retryLatencySeconds.count + 1),
           sum |-> Min(retryLatencySeconds.sum + (now - calls[c].retryStart),
                       MaxCount * limiter.retryBackoffMs)]
    /\ Leave(c, bucketCheck(limiter, cache, [calls[c] EXCEPT !.slept = @ + 1], now))
    /\ UNCHANGED <<now, nextCall, etl>>

\* time passes by ElapseMs, once the timers that are due have fired
Elapse ==
    /\ \A c \in Pending : calls[c].pc = "setTimeout" => calls[c].wakeAt > now
    /\ limiter' = [limiter EXCEPT !.lastRefill = Max(@ - ElapseMs, now - RefillFull(limiter))]
    /\ cache' = IF cache = Null \/ cache - ElapseMs < now THEN Null ELSE cache - ElapseMs
    /\ calls' = [c \in CallIds |->
                   IF calls[c].pc = "setTimeout"
                   THEN [calls[c] EXCEPT
                           !.wakeAt = Max(@ - ElapseMs, now),
                           !.retryStart = Max(@ - ElapseMs, now - limiter.retryBackoffMs)]
                   ELSE calls[c]]
    /\ UNCHANGED <<throttleEventsTotal, retryLatencySeconds, now, nextCall,
                   admittedSince, etl>>

\* The fetch of a run with the request of fetchCoinGeckoData going through
\* the limiter: Promise.all starts the three fetchers ...
FetchStart(r) ==
    /\ run[r].pc = "fetch"
    /\ nextCall < MaxCalls
    /\ nextCall' = nextCall + 1
    /\ rateLimitedRequest(nextCall + 1, NewCall)
    /\ Set(r, [run[r] EXCEPT !.pc = "Promise.all", !.call = nextCall + 1])
    /\ UNCHANGED <<retryLatencySeconds, now, stores, uniqueIndex, mongoDb,
                   FAULT_INJECTION, scheduler, nextRun, feed, faults, schemaDrift>>

\* what fetchCoinGeckoData makes of the payload: data.map over [] is []
Payload(result, served) == IF result = "[]" THEN <<>> ELSE served

\* ... and settles once rateLimitedRequest has returned: the arrays of the
\* three sources, or the rejection of a fetcher
FetchSettled(r) ==
    /\ run[r].pc = "Promise.all"
    /\ calls[run[r].call].pc = "done"
    /\ \/ /\ Set(r, [run[r] EXCEPT
                       !.data = [feed EXCEPT !["coingecko"] =
                                   Payload(calls[run[r].call].result, @)],
                       !.pc = "getCheckpoint"])
          /\ UNCHANGED faults
       \/ /\ CanFail
          /\ faults' = faults + 1
          /\ Set(r, [run[r] EXCEPT !.pc = "catch"])
    /\ UNCHANGED <<stores, mongoDb, FAULT_INJECTION, scheduler, nextRun, outside>>

----------------------------------------------------------------------------
(* Utility/schemaDrift.js.  A field name is the sequence of its characters. *)
(* A similarity is a fraction <<numerator, denominator>>; a confidence is   *)
(* a number of thousandths, as toFixed(3) rounds it.                        *)

unifiedFields ==
    <<<<"s", "y", "m", "b", "o", "l">>,
      <<"n", "a", "m", "e">>,
      <<"p", "r", "i", "c", "e", "_", "u", "s", "d">>,
      <<"v", "o", "l", "u", "m", "e", "_", "2", "4", "h">>,
      <<"m", "a", "r", "k", "e", "t", "_", "c", "a", "p">>,
      <<"p", "e", "r", "c", "e", "n", "t", "_", "c", "h", "a", "n", "g", "e", "_", "2", "4", "h">>,
      <<"t", "i", "m", "e", "s", "t", "a", "m", "p">>,
      <<"s", "o", "u", "r", "c", "e">>>>

\* columnAliases, as pairs <<alias, unified field>> in the order of its keys
columnAliases ==
    <<<<<<"t", "i", "m", "e">>, <<"t", "i", "m", "e", "s", "t", "a", "m", "p">>>>,
      <<<<"t", "i", "c", "k", "e", "r">>, <<"s", "y", "m", "b", "o", "l">>>>,
      <<<<"u", "s", "d", "_", "p", "r", "i", "c", "e">>, <<"p", "r", "i", "c", "e", "_", "u", "s", "d">>>>,
      <<<<"t", "x", "_", "v", "o", "l", "u", "m", "e">>, <<"v", "o", "l", "u", "m", "e", "_", "2", "4", "h">>>>,
      <<<<"c", "r", "e", "a", "t", "e", "d", "_", "a", "t">>, <<"t", "i", "m", "e", "s", "t", "a", "m", "p">>>>,
      <<<<"p", "r", "i", "c", "e", "_", "t", "i", "m", "e", "s", "t", "a", "m", "p">>, <<"t", "i", "m", "e", "s", "t", "a", "m", "p">>>>>>

\* columnAliases[field1] === field2
IsAliasOf(field1, field2) ==
    \E n \in 1..Len(columnAliases) : columnAliases[n] = <<field1, field2>>

UpperCase == <<"A", "B", "C", "D", "E", "F", "G", "H", "I", "J", "K", "L", "M",
               "N", "O", "P", "Q", "R", "S", "T", "U", "V", "W", "X", "Y", "Z">>

LowerCase == <<"a", "b", "c", "d", "e", "f", "g", "h", "i", "j", "k", "l", "m",
               "n", "o", "p", "q", "r", "s", "t", "u", "v", "w", "x", "y", "z">>

toLowerCase(ch) ==
    IF \E n \in 1..Len(UpperCase) : UpperCase[n] = ch
    THEN LowerCase[CHOOSE n \in 1..Len(UpperCase) : UpperCase[n] = ch]
    ELSE ch

LowerOf(str) == [n \in 1..Len(str) |-> toLowerCase(str[n])]

\* str.toLowerCase().replace(/[_-]/g, '')
normalize(str) ==
    LET Kept(ch) == ch \notin {"_", "-"}
    IN  SelectSeq(LowerOf(str), Kept)

\* col.toLowerCase().replace(/[\s_]/g, '')
normalizeColName(col) ==
    LET Kept(ch) == ch \notin {"_", " "}
    IN  SelectSeq(LowerOf(col), Kept)

\* norm1.includes(norm2)
Includes(norm1, norm2) ==
    \E k \in 0..(Len(norm1) - Len(norm2)) :
        SubSeq(norm1, k + 1, k + Len(norm2)) = norm2

RECURSIVE FillRow(_, _, _, _)
\* one row of the edit distance table: the row holds the columns 0..Len(row)-1
FillRow(row, prev, ch, b) ==
    IF Len(row) = Len(b) + 1 THEN row
    ELSE LET j == Len(row)
             cost == IF b[j] = ch THEN 0 ELSE 1
         IN  FillRow(Append(row, Min(Min(prev[j + 1] + 1, row[j] + 1), prev[j] + cost)),
                     prev, ch, b)

RECURSIVE LevRows(_, _, _, _)
LevRows(prev, a, i, b) ==
    IF i > Len(a) THEN prev[Len(b) + 1]
    ELSE LevRows(FillRow(<<prev[1] + 1>>, prev, a[i], b), a, i + 1, b)

\* levenshtein.get(a, b) of fast-levenshtein: the edit distance
levenshtein(a, b) == LevRows([j \in 1..(Len(b) + 1) |-> j - 1], a, 1, b)

calculateSimilarity(field1, field2) ==
    LET norm1 == normalize(field1)
        norm2 == normalize(field2)
        maxLen == Max(Len(norm1), Len(norm2))
    IN  IF IsAliasOf(field1, field2) \/ IsAliasOf(field2, field1) THEN <<1, 1>>
        ELSE IF Includes(norm1, norm2) \/ Includes(norm2, norm1) THEN <<9, 10>>
        ELSE IF maxLen = 0 THEN <<1, 1>>
        ELSE <<maxLen - levenshtein(norm1, norm2), maxLen>>

\* p > q, p = q, p <= q on fractions with positive denominators
Greater(p, q) == p[1] * q[2] > q[1] * p[2]

Same(p, q) == p[1] * q[2] = q[1] * p[2]

\* parseFloat(x.toFixed(3)), in thousandths
toFixed3(p) == (2000 * p[1] + p[2]) \div (2 * p[2])

\* the field names calculateSimilarity is called with
FieldNames ==
    {<<>>, <<"_">>, <<"a">>, <<"a", "b">>, <<"b", "a">>, <<"A", "_", "b">>,
     <<"a", "-", "c">>, <<"n", "a", "m", "e">>, <<"n", "o", "m", "e">>, <<"t", "i", "m", "e">>,
     <<"t", "i", "m", "e", "s", "t", "a", "m", "p">>, <<"t", "i", "c", "k", "e", "r">>, <<"s", "y", "m", "b", "o", "l">>}

NoSimilarity == [field1 |-> <<>>, field2 |-> <<>>, called |-> FALSE, value |-> <<0, 1>>]

\* a caller evaluates calculateSimilarity(field1, field2)
CalculateSimilarity ==
    /\ ~similarity.called
    /\ similarity' = [similarity EXCEPT
                        !.called = TRUE,
                        !.value = calculateSimilarity(similarity.field1,
                                                      similarity.field2)]
    /\ UNCHANGED <<knownSchemas, schemaVersion, driftRun, driftLedger, reported,
                   csvRow, pipelineState, gate>>

\* a row of fetched data, as the pairs <<key, typeof value>> of its
\* properties in their order; originalData and driftedData of the drift test
originalData ==
    <<<<<<"s", "y", "m", "b", "o", "l">>, "string">>,
      <<<<"n", "a", "m", "e">>, "string">>,
      <<<<"p", "r", "i", "c", "e", "_", "u", "s", "d">>, "number">>,
      <<<<"v", "o", "l", "u", "m", "e", "_", "2", "4", "h">>, "number">>,
      <<<<"t", "i", "m", "e", "s", "t", "a", "m", "p">>, "string">>>>

driftedData ==
    <<<<<<"t", "i", "c", "k", "e", "r">>, "string">>,
      <<<<"n", "a", "m", "e">>, "string">>,
      <<<<"u", "s", "d", "_", "p", "r", "i", "c", "e">>, "string">>,
      <<<<"v", "o", "l", "u", "m", "e", "_", "2", "4", "h">>, "number">>,
      <<<<"c", "r", "e", "a", "t", "e", "d", "_", "a", "t">>, "number">>>>

\* name and timestamp are gone, nome and label are new
renamedData ==
    <<<<<<"s", "y", "m", "b", "o", "l">>, "string">>,
      <<<<"n", "o", "m", "e">>, "string">>,
      <<<<"p", "r", "i", "c", "e", "_", "u", "s", "d">>, "number">>,
      <<<<"v", "o", "l", "u", "m", "e", "_", "2", "4", "h">>, "number">>,
      <<<<"l", "a", "b", "e", "l">>, "string">>>>

\* what each source may serve in a run: rows of one shape, or for the file
\* no row at all
DriftData ==
    [coingecko |-> {<<originalData>>, <<driftedData>>, <<renamedData>>},
     coinpaprika |-> {<<originalData>>, <<renamedData>>},
     csv |-> {<<>>, <<originalData>>}]

KeysOf(schema) == [n \in 1..Len(schema) |-> schema[n][1]]

KeySet(schema) == {schema[n][1] : n \in 1..Len(schema)}

TypeOf(schema, key) == schema[CHOOSE n \in 1..Len(schema) : schema[n][1] = key][2]

\* the schema of the first record, {} for no data
extractSchema(data) == IF Len(data) = 0 THEN <<>> ELSE data[1]

schemasEqual(schema1, schema2) ==
    /\ KeySet(schema1) = KeySet(schema2)
    /\ \A k \in KeySet(schema1) : TypeOf(schema1, k) = TypeOf(schema2, k)

NoMatch == [found |-> FALSE, to |-> <<>>, confidence |-> <<0, 1>>]

RECURSIVE BestMatch(_, _, _, _)
\* the inner loop of findMappings over addedFields[n..]
BestMatch(missing, addedFields, n, best) ==
    IF n > Len(addedFields) THEN best
    ELSE LET confidence == calculateSimilarity(missing, addedFields[n])
         IN  BestMatch(missing, addedFields, n + 1,
                       IF Greater(confidence, best.confidence)
                       THEN [found |-> TRUE, to |-> addedFields[n],
                             confidence |-> confidence]
                       ELSE best)

RECURSIVE MappingsFrom(_, _, _)
\* the outer loop of findMappings over missingFields[n..]
MappingsFrom(missingFields, addedFields, n) ==
    IF n > Len(missingFields) THEN <<>>
    ELSE LET best == BestMatch(missingFields[n], addedFields, 1, NoMatch)
         IN  (IF best.found /\ best.to # <<>>
              THEN <<[from |-> missingFields[n], to |-> best.to,
                      confidence |-> toFixed3(best.confidence)]>>
              ELSE <<>>)
             \o MappingsFrom(missingFields, addedFields, n + 1)

findMappings(oldSchema, newSchema) ==
    LET Missing(f) == f \notin KeySet(newSchema)
        Added(f) == f \notin KeySet(oldSchema)
    IN  MappingsFrom(SelectSeq(KeysOf(oldSchema), Missing),
                     SelectSeq(KeysOf(newSchema), Added), 1)

\* CONFIDENCE_THRESHOLDS, in thousandths
AUTO_MAP == 800

QUARANTINE == 500

SKIP == 500

Applied(m) == m.confidence >= AUTO_MAP

Quarantined(m) == m.confidence >= QUARANTINE /\ m.confidence < AUTO_MAP

Skipped(m) == m.confidence < SKIP

NoDrift(version) ==
    [applied_mappings |-> <<>>, warnings |-> <<>>, schema_version |-> version,
     quarantined_mappings |-> <<>>, skipped_mappings |-> <<>>, hasChanges |-> FALSE]

Unseen == [seen |-> FALSE, schema |-> <<>>]

\* detectDrift(source, currentData) on a detector whose state is known and
\* version: the result and the state it leaves
detectDrift(known, version, source, currentData) ==
    LET currentSchema == extractSchema(currentData)
        previousSchema == known[source]
        stored == [known EXCEPT ![source] = [seen |-> TRUE, schema |-> currentSchema]]
        mappings == findMappings(previousSchema.schema, currentSchema)
    IN  IF ~previousSchema.seen
        THEN [result |-> NoDrift(version), knownSchemas |-> stored,
              schemaVersion |-> version]
        ELSE IF ~schemasEqual(currentSchema, previousSchema.schema)
        THEN [result |->
                [applied_mappings |-> SelectSeq(mappings, Applied),
                 warnings |-> <<>>,
                 schema_version |-> version + 1,
                 quarantined_mappings |-> SelectSeq(mappings, Quarantined),
                 skipped_mappings |-> SelectSeq(mappings, Skipped),
                 hasChanges |-> TRUE],
              knownSchemas |-> stored,
              schemaVersion |-> version + 1]
        ELSE [result |-> NoDrift(version), knownSchemas |-> known,
              schemaVersion |-> version]

\* the locals of runETLPipeline that carry drift results: the source the loop
\* is at, the driftResult of each source so far, and the results array
NewDriftRun ==
    [pc |-> "idle", srcIdx |-> 1, driftResult |-> <<>>, results |-> <<>>]

\* the module is loaded: a detector that has seen nothing
schemaDriftLoaded ==
    /\ knownSchemas = [s \in SourceNames |-> Unseen]
    /\ schemaVersion = 1
    /\ driftRun = NewDriftRun
    /\ driftLedger = <<>>
    /\ reported = [s \in SourceNames |-> 1]

\* a run reaches the loop over the sources
DriftStart ==
    /\ driftRun.pc \in {"idle", "logged"}
    /\ Len(driftLedger) < MaxRuns
    /\ driftRun' = [NewDriftRun EXCEPT !.pc = "sources"]
    /\ UNCHANGED <<knownSchemas, schemaVersion, driftLedger, reported, similarity,
                   csvRow, pipelineState, gate>>

\* one iteration of the loop over the sources: detectDrift, then
\* processSourceWithCheckpoint returns and the result is pushed with the
\* mappings, or it throws and the catch pushes a result without them
DriftSource ==
    /\ driftRun.pc = "sources"
    /\ driftRun.srcIdx <= Len(Sources)
    /\ \E data \in DriftData[Sources[driftRun.srcIdx]] :
          LET name == Sources[driftRun.srcIdx]
              d == detectDrift(knownSchemas, schemaVersion, name, data)
              driftResult == d.result
              next == [driftRun EXCEPT
                         !.srcIdx = @ + 1,
                         !.driftResult = Append(@, driftResult)]
          IN  /\ knownSchemas' = d.knownSchemas
              /\ schemaVersion' = d.schemaVersion
              /\ reported' = [reported EXCEPT ![name] = driftResult.schema_version]
              /\ \/ /\ driftRun' = [next EXCEPT !.results = Append(@,
                                      [source |-> name,
                                       applied_mappings |-> driftResult.applied_mappings,
                                       schema_warnings |-> driftResult.warnings,
                                       schema_version |-> driftResult.schema_version])]
                    /\ UNCHANGED faults
                 \/ /\ CanFail
                    /\ faults' = faults + 1
                    /\ driftRun' = [next EXCEPT !.results = Append(@,
                                      [source |-> name,
                                       applied_mappings |-> <<>>,
                                       schema_warnings |-> <<>>,
                                       schema_version |-> 1])]
    /\ UNCHANGED <<driftLedger, similarity, csvRow, stores, uniqueIndex, mongoDb,
                   FAULT_INJECTION, scheduler, nextRun, feed, run, gate>>

\* "Collect schema drift info", logETLRun and the record logETLRun builds:
\* the mapping fields of the ledger entry
DriftLog ==
    /\ driftRun.pc = "sources"
    /\ driftRun.srcIdx > Len(Sources)
    /\ LET results == driftRun.results
           Versions == {results[n].schema_version : n \in 1..Len(results)}
       IN  driftLedger' = Append(driftLedger,
              [applied_mappings |->
                   Flatten([n \in 1..Len(results) |-> results[n].applied_mappings],
                           Len(results)),
               quarantined_mappings |-> <<>>,
               skipped_mappings |-> <<>>,
               schema_warnings |->
                   Flatten([n \in 1..Len(results) |-> results[n].schema_warnings],
                           Len(results)),
               schema_version |-> SetMax(Versions)])
    /\ driftRun' = [driftRun EXCEPT !.pc = "logged"]
    /\ UNCHANGED <<knownSchemas, schemaVersion, reported, similarity, csvRow,
                   pipelineState, gate>>

\* p >= t / 1000 for a fraction p
AtLeast(p, thousandths) == 1000 * p[1] >= thousandths * p[2]

\* the columns of a CSV row, as pairs <<column, value>> in their order
HasCol(row, col) == \E n \in 1..Len(row) : row[n][1] = col

ValueOf(row, col) == row[CHOOSE n \in 1..Len(row) : row[n][1] = col][2]

\* convertValueType: null for an empty value, the value else (the numeric
\* fields are parsed by convertToNumber afterwards)
convertValueType(field, value) == IF value = "" THEN "null" ELSE value

RECURSIVE AliasPass(_, _)
\* "First try exact matches from aliases": the assignments to mapped, in order
AliasPass(row, n) ==
    IF n > Len(columnAliases) THEN <<>>
    ELSE (IF HasCol(row, columnAliases[n][1])
          THEN <<<<columnAliases[n][2],
                   convertValueType(columnAliases[n][2],
                                    ValueOf(row, columnAliases[n][1]))>>>>
          ELSE <<>>)
         \o AliasPass(row, n + 1)

IsAlias(col) == \E n \in 1..Len(columnAliases) : columnAliases[n][1] = col

\* columnAliases[csvCol] || csvCol
effectiveCol(csvCol) ==
    IF IsAlias(csvCol)
    THEN columnAliases[CHOOSE n \in 1..Len(columnAliases) : columnAliases[n][1] = csvCol][2]
    ELSE csvCol

\* 1 - distance / Math.max(effectiveCol.length, targetField.length || 1)
Score(col, targetField) ==
    LET longest == Max(Len(col), IF Len(targetField) = 0 THEN 1 ELSE Len(targetField))
    IN  <<longest - levenshtein(normalizeColName(col), normalizeColName(targetField)),
          longest>>

RECURSIVE BestTarget(_, _, _)
\* the loop over unifiedFields[n..]
BestTarget(col, n, best) ==
    IF n > Len(unifiedFields) THEN best
    ELSE BestTarget(col, n + 1,
                    IF Greater(Score(col, unifiedFields[n]), best.confidence)
                    THEN [found |-> TRUE, to |-> unifiedFields[n],
                          confidence |-> Score(col, unifiedFields[n])]
                    ELSE best)

bestOf(csvCol) == BestTarget(effectiveCol(csvCol), 1, NoMatch)

RECURSIVE FuzzyPass(_, _)
\* the loop over the columns the alias pass left in the row
FuzzyPass(row, n) ==
    IF n > Len(row) THEN <<>>
    ELSE (IF ~IsAlias(row[n][1]) /\ AtLeast(bestOf(row[n][1]).confidence, AUTO_MAP)
          THEN <<<<bestOf(row[n][1]).to,
                   convertValueType(bestOf(row[n][1]).to, row[n][2])>>>>
          ELSE <<>>)
         \o FuzzyPass(row, n + 1)

\* mappedRow, as the assignments to it in order: a later one overwrites
mapCsvRowToUnifiedSchema(row) == AliasPass(row, 1) \o FuzzyPass(row, 1)

\* mappedRow[field], "undefined" if never assigned
Mapped(mappedRow, field) ==
    LET At == {n \in 1..Len(mappedRow) : mappedRow[n][1] = field}
    IN  IF At = {} THEN "undefined" ELSE mappedRow[SetMax(At)][2]

\* the values of the file that parse as a number, and what they parse to
convertToNumber(value) == IF value = "45000" THEN 45000 ELSE 0

\* the values moment() accepts are kept; anything else becomes new Date()
convertToDate(value) ==
    IF value = "2024-01-01T00:00:00Z" THEN value ELSE "new Date()"

Falsy(value) == value \in {"undefined", "null", ""}

\* the row object after mapCsvRowToUnifiedSchema: the alias pass deletes the
\* columns it maps (delete row[csvCol])
RowAfterMapping(row) ==
    LET Kept(col) == ~IsAlias(col[1])
    IN  SelectSeq(row, Kept)

\* normalizedData of the 'data' handler of fetchCSVData
normalizedData(row) ==
    LET mappedRow == mapCsvRowToUnifiedSchema(row)
    IN  [symbol |-> IF Falsy(Mapped(mappedRow, unifiedFields[1])) THEN "UNKNOWN"
                    ELSE Mapped(mappedRow, unifiedFields[1]),
         price_usd |-> convertToNumber(Mapped(mappedRow, unifiedFields[3])),
         volume_24h |-> convertToNumber(Mapped(mappedRow, unifiedFields[4])),
         timestamp |-> convertToDate(Mapped(mappedRow, unifiedFields[7])),
         source |-> "csv",
         raw_data |-> RowAfterMapping(row)]

\* unifiedSchema.validate(record) has no error
validate(record) ==
    /\ record.price_usd > 0
    /\ record.volume_24h >= 0
    /\ record.timestamp \notin {"undefined", "null", ""}
    /\ record.source \in SourceNames

\* the names the timestamp column and the symbol column of the file may have
TimestampCols ==
    {<<"t", "i", "m", "e", "s", "t", "a", "m", "p">>,
     <<"t", "i", "m", "e">>,
     <<"c", "r", "e", "a", "t", "e", "d", "_", "a", "t">>,
     <<"t", "i", "m", "e", "_", "s", "t", "a", "m", "p">>,
     <<"t", "i", "m", "e", "s", "t", "m", "p">>,
     <<"t", "i", "m", "e", "s", "t", "a", "m", "p", "_", "u", "n", "i", "x">>,
     <<"t", "s", "t", "a", "m", "p">>,
     <<"t", "m", "s", "t", "a", "m", "p">>,
     <<"s", "t", "a", "m", "p">>,
     <<"t", "s">>,
     <<"d", "a", "t", "e", "t", "i", "m", "e">>}

SymbolCols ==
    {<<"s", "y", "m", "b", "o", "l">>, <<"t", "i", "c", "k", "e", "r">>, <<"s", "y", "m">>}

NoRecord ==
    [symbol |-> "", price_usd |-> 0, volume_24h |-> 0, timestamp |-> "", source |-> "",
     raw_data |-> <<>>]

NoCsvRow == [pc |-> "none", row |-> <<>>, record |-> NoRecord, valid |-> FALSE]

\* csv-parser emits a row of the file
CsvRows ==
    {[pc |-> "data",
      row |-> <<<<sc, "BTC">>, <<unifiedFields[3], price>>,
                <<tc, "2024-01-01T00:00:00Z">>>>,
      record |-> NoRecord, valid |-> FALSE] :
        sc \in SymbolCols, price \in {"45000", ""}, tc \in TimestampCols}

\* fetchCSVData: the 'data' handler maps the row and pushes the record
fetchCSVData ==
    /\ csvRow.pc = "data"
    /\ csvRow' = [csvRow EXCEPT !.pc = "results", !.record = normalizedData(csvRow.row)]
    /\ UNCHANGED <<knownSchemas, schemaVersion, driftRun, driftLedger, reported,
                   similarity, pipelineState, gate>>

\* the record loop of processSourceWithCheckpoint on the record, on a source
\* with no watermark and a store that does not reject: validation, then the
\* two upserts
LoadCsvRecord ==
    LET record == csvRow.record
        key == <<record.symbol, record.timestamp, record.source>>
    IN  /\ csvRow.pc = "results"
        /\ csvRow' = [csvRow EXCEPT !.pc = "loaded", !.valid = validate(record)]
        /\ IF validate(record)
           THEN /\ raw_crypto_data' =
                      upsert(raw_crypto_data, key, BagIn(key, raw_crypto_data))
                /\ normalized_crypto_data' =
                      upsert(normalized_crypto_data, key,
                             BagIn(key, normalized_crypto_data))
           ELSE UNCHANGED <<raw_crypto_data, normalized_crypto_data>>
        /\ UNCHANGED <<knownSchemas, schemaVersion, driftRun, driftLedger, reported,
                       similarity, etlcheckpoints, etlruns, etl_summaries,
                       uniqueIndex, mongoDb, FAULT_INJECTION, scheduler, nextRun,
                       feed, faults, run, gate>>

----------------------------------------------------------------------------
(* Specifications *)

Init ==
    /\ Start
    /\ schemaDriftLoaded
    /\ similarity = NoSimilarity
    /\ csvRow = NoCsvRow
    /\ feed \in Feeds
    /\ uniqueIndex = NoIndex
    /\ Loaded(RateLimits.coingecko)

Pipeline ==
    \E r \in RunIds :
        \/ Connect(r)
        \/ CreateIndex(r)
        \/ Fetch(r)
        \/ ReadCheckpoint(r)
        \/ ReadWatermark(r)
        \/ BatchStart(r)
        \/ SkipRecord(r)
        \/ WriteRaw(r)
        \/ WriteNormalized(r)
        \/ SaveCheckpoint(r)
        \/ StoreSummary(r)
        \/ LogRun(r)
        \/ ClearCheckpoints(r)
        \/ Catch(r)

\* the scheduler process: every run is a job of executeETLJob
Next ==
    \/ executeETLJob
    \/ executeETLJobSettled
    \/ Restart
    \/ Pipeline

Spec == Init /\ [][Next]_vars

\* the API server next to the scheduler: runs are also started over HTTP
InitApi ==
    /\ Start
    /\ schemaDriftLoaded
    /\ similarity = NoSimilarity
    /\ csvRow = NoCsvRow
    /\ feed = FeedTiny
    /\ uniqueIndex = NoIndex
    /\ Loaded(RateLimits.coingecko)

NextApi ==
    \/ Next
    \/ PostRefresh
    \/ PostEtlRefresh

SpecApi == InitApi /\ [][NextApi]_vars

\* the API server and the scheduler on a database that refuses the unique
\* indexes: every createIndex call rejects and the pipeline goes on
InitIdx ==
    /\ Start
    /\ schemaDriftLoaded
    /\ similarity = NoSimilarity
    /\ csvRow = NoCsvRow
    /\ feed = FeedTiny
    /\ uniqueIndex = [c \in Collections |-> "refused"]
    /\ Loaded(RateLimits.coingecko)

SpecIdx == InitIdx /\ [][NextApi]_vars

\* the rate limiter under concurrent callers, for each configured source
InitGate ==
    /\ Start
    /\ schemaDriftLoaded
    /\ similarity = NoSimilarity
    /\ csvRow = NoCsvRow
    /\ feed = FeedTiny
    /\ uniqueIndex = NoIndex
    /\ FAULT_INJECTION = FALSE
    /\ \E source \in DOMAIN RateLimits : Loaded(RateLimits[source])

NextGate ==
    \/ Invoke
    \/ Gate
    \/ Tick

SpecGate == InitGate /\ [][NextGate]_vars

\* testSource firing its requests at the source of 3 per minute
InitTest ==
    /\ Start
    /\ schemaDriftLoaded
    /\ similarity = NoSimilarity
    /\ csvRow = NoCsvRow
    /\ feed = FeedTiny
    /\ uniqueIndex = NoIndex
    /\ FAULT_INJECTION = FALSE
    /\ Loaded(ThreePerMinute)

NextTest ==
    \/ testSource
    \/ Gate
    \/ Tick

SpecTest == InitTest /\ [][NextTest]_vars

\* the rate limiter of a source of 3 per minute over more than the
\* lifetime of a cache entry
InitCache ==
    /\ Start
    /\ schemaDriftLoaded
    /\ similarity = NoSimilarity
    /\ csvRow = NoCsvRow
    /\ feed = FeedTiny
    /\ uniqueIndex = NoIndex
    /\ FAULT_INJECTION = FALSE
    /\ Loaded(ThreePerMinute)

NextCache ==
    \/ Invoke
    \/ Gate
    \/ Idle

SpecCache == InitCache /\ [][NextCache]_vars

\* calculateSimilarity on every pair of a set of field names
InitSim ==
    /\ Start
    /\ feed = FeedTiny
    /\ uniqueIndex = NoIndex
    /\ FAULT_INJECTION = FALSE
    /\ Loaded(RateLimits.coingecko)
    /\ schemaDriftLoaded
    /\ csvRow = NoCsvRow
    /\ similarity \in [field1 : FieldNames, field2 : FieldNames, called : {FALSE},
                        value : {<<0, 1>>}]

SpecSim == InitSim /\ [][CalculateSimilarity]_vars

\* the drift detector over the runs of the pipeline, the sources serving
\* rows of a shape that changes from run to run
InitDrift ==
    /\ Start
    /\ feed = FeedTiny
    /\ uniqueIndex = NoIndex
    /\ FAULT_INJECTION = FALSE
    /\ Loaded(RateLimits.coingecko)
    /\ schemaDriftLoaded
    /\ similarity = NoSimilarity
    /\ csvRow = NoCsvRow

NextDrift ==
    \/ DriftStart
    \/ DriftSource
    \/ DriftLog

SpecDrift == InitDrift /\ [][NextDrift]_vars

\* a row of the CSV file from the parser to the collections
InitCsv ==
    /\ Start
    /\ feed = FeedTiny
    /\ uniqueIndex = NoIndex
    /\ FAULT_INJECTION = FALSE
    /\ Loaded(RateLimits.coingecko)
    /\ schemaDriftLoaded
    /\ similarity = NoSimilarity
    /\ csvRow \in CsvRows

NextCsv ==
    \/ fetchCSVData
    \/ LoadCsvRecord

SpecCsv == InitCsv /\ [][NextCsv]_vars

\* the scheduler over MaxJobs jobs
InitSched ==
    /\ Start
    /\ schemaDriftLoaded
    /\ similarity = NoSimilarity
    /\ csvRow = NoCsvRow
    /\ feed = FeedTiny
    /\ uniqueIndex = NoIndex
    /\ Loaded(RateLimits.coingecko)

NextSched ==
    \/ cronJob
    \/ runETLPipelineSettles
    \/ executeETLJobSettled
    \/ Restart

SpecSched == InitSched /\ [][NextSched]_vars

\* the limiter of a configured source with callers that keep coming, time
\* without end
InitLive ==
    /\ Start
    /\ schemaDriftLoaded
    /\ similarity = NoSimilarity
    /\ csvRow = NoCsvRow
    /\ feed = FeedTiny
    /\ uniqueIndex = NoIndex
    /\ FAULT_INJECTION = FALSE
    /\ Loaded(RateLimits.coingecko)

NextLive ==
    \/ \E c \in Pending : Call(c)
    \/ \E c \in Pending : CallUnknown(c)
    \/ \E c \in Pending : Retry(c)
    \/ \E c \in Pending : Respond(c)
    \/ Elapse

\* time advances, a timer that is due fires, a request that was sent
\* settles; and, the schedule being fair to the callers, a retry that finds
\* a token again and again gets one
FairLive ==
    /\ WF_vars(Elapse)
    /\ \A c \in Pending : WF_vars(Retry(c))
    /\ \A c \in Pending : WF_vars(Respond(c))
    /\ \A c \in Pending : SF_vars(Retry(c) /\ calls'[c].pc = "axios.get")

SpecLive == InitLive /\ [][NextLive]_vars /\ FairLive

\* testSource's requests with pauses between them, the admitted requests
\* counted from some moment on
InitRefill ==
    /\ Start
    /\ schemaDriftLoaded
    /\ similarity = NoSimilarity
    /\ csvRow = NoCsvRow
    /\ feed = FeedTiny
    /\ uniqueIndex = NoIndex
    /\ FAULT_INJECTION = FALSE
    /\ Loaded(ThreePerMinute)

NextRefill ==
    \/ testSource
    \/ Gate
    \/ Tick
    \/ Idle
    \/ Observe

SpecRefill == InitRefill /\ [][NextRefill]_vars

\* the scheduler process with the request of the coingecko fetcher going
\* through the limiter
InitFetch ==
    /\ Start
    /\ schemaDriftLoaded
    /\ similarity = NoSimilarity
    /\ csvRow = NoCsvRow
    /\ feed = FeedB
    /\ uniqueIndex = NoIndex
    /\ FAULT_INJECTION = FALSE
    /\ Loaded(RateLimits.coingecko)

PipelineFetch ==
    \E r \in RunIds :
        \/ Connect(r)
        \/ CreateIndex(r)
        \/ FetchStart(r)
        \/ FetchSettled(r)
        \/ ReadCheckpoint(r)
        \/ ReadWatermark(r)
        \/ BatchStart(r)
        \/ SkipRecord(r)
        \/ WriteRaw(r)
        \/ WriteNormalized(r)
        \/ SaveCheckpoint(r)
        \/ StoreSummary(r)
        \/ LogRun(r)
        \/ ClearCheckpoints(r)
        \/ Catch(r)

NextFetch ==
    \/ executeETLJob
    \/ executeETLJobSettled
    \/ PipelineFetch
    \/ \E c \in CallIds : Respond(c)

SpecFetch == InitFetch /\ [][NextFetch]_vars

\* the scheduler process where one source serves 20 records
InitS3 ==
    /\ Start
    /\ schemaDriftLoaded
    /\ similarity = NoSimilarity
    /\ csvRow = NoCsvRow
    /\ feed = FeedS3
    /\ uniqueIndex = NoIndex
    /\ Loaded(RateLimits.coingecko)

SpecS3 == InitS3 /\ [][Next]_vars

----------------------------------------------------------------------------
(* Properties *)

Finished(r) == run[r].pc \in {"returned", "threw"}

Active(r) == run[r].pc \notin {"idle", "returned", "threw"}

\* the ledger entries that carry the run's id
EntriesOf(r) == {n \in 1..Len(etlruns) : etlruns[n].run_id = r}

\* the batch loop of source s failed in run r: the batch catch recorded it
LoopFailed(r, s) == run[r].proc[s].failedBatches # <<>>

StoredIndex(r, s) == getCheckpoint(etlcheckpoints, BatchId(r, s), s)

\* C1: every finished run has exactly one ledger entry with its run id, on
\* every path: success, partial success, failure before processing, failure
\* of a step after processing.
C1_ExactlyOneLedgerEntry ==
    \A r \in RunIds : Finished(r) => Cardinality(EntriesOf(r)) = 1

\* C2: once a run with a ledger entry of status success has returned, the
\* checkpoint store holds no checkpoint tagged with its run id.
C2_SuccessLeavesNoCheckpoint ==
    \A r \in RunIds :
        (/\ run[r].pc = "returned"
         /\ \E n \in EntriesOf(r) : etlruns[n].status = "success")
        => getAllCheckpoints(etlcheckpoints, r) = {}

\* a successful run has returned after saving checkpoints for two sources
C2_Witness ==
    \E r \in RunIds :
        /\ run[r].pc = "returned"
        /\ \E n \in EntriesOf(r) : etlruns[n].status = "success"
        /\ Cardinality({s \in SourceNames : run[r].proc[s].i > 0}) >= 2
        /\ getAllCheckpoints(etlcheckpoints, r) = {}

\* C3: after a run returned partial_success, for every source whose batch
\* loop failed the stored checkpoint is the start k of the failing batch,
\* 0 <= k < |records|, read as 0 when no batch completed, and its document
\* is still in the store.
C3_PartialKeepsCheckpoint ==
    \A r \in RunIds : \A s \in SourceNames :
        (run[r].pc = "returned" /\ run[r].status = "partial_success"
         /\ LoopFailed(r, s))
        => LET k == StoredIndex(r, s)
           IN  /\ 0 <= k /\ k < Len(run[r].data[s])
               /\ k = run[r].proc[s].i
               /\ k > 0 => \E c \in getAllCheckpoints(etlcheckpoints, r) :
                              c.source = s /\ c.lastProcessedIndex = k

\* a run returned partial_success with a source stopped after a completed
\* batch, and a later run has returned as well
C3_Witness ==
    \E r \in RunIds :
        /\ run[r].pc = "returned" /\ run[r].status = "partial_success"
        /\ \E s \in SourceNames : LoopFailed(r, s) /\ StoredIndex(r, s) > 0
        /\ r < MaxRuns /\ run[r + 1].pc = "returned"

\* C4: the lastProcessedIndex stored for a (batchId, source) key never
\* decreases from one state of the store to the next.
C4_CheckpointNeverDecreases ==
    [][\A c \in etlcheckpoints : \A d \in etlcheckpoints' :
          (c.batchId = d.batchId /\ c.source = d.source)
          => d.lastProcessedIndex >= c.lastProcessedIndex]_vars

\* a checkpoint has been saved a second time for its key
C4_Witness ==
    \E c \in etlcheckpoints : c.lastProcessedIndex > BATCH_SIZE

\* C5: a run that follows a partial_success run and returns success started
\* every failed source at the preserved checkpoint, recorded resume_info for
\* it, left the earlier run's checkpoints cleared, and every valid fetched
\* record is in the normalized collection.
C5_ResumesFromCheckpoint ==
    \A r \in RunIds : \A s \in SourceNames :
        (/\ r > 1
         /\ run[r - 1].pc = "returned" /\ run[r - 1].status = "partial_success"
         /\ LoopFailed(r - 1, s) /\ run[r - 1].proc[s].i > 0
         /\ run[r].pc = "returned" /\ run[r].status = "success")
        => /\ run[r].proc[s].lastIndex = run[r - 1].proc[s].i
           /\ <<s, BatchNum(run[r - 1].proc[s].i)>> \in run[r].resumeInfo
           /\ getAllCheckpoints(etlcheckpoints, r - 1) = {}
           /\ \A n \in 1..Len(run[r].data[s]) :
                 run[r].data[s][n].valid
                 => BagIn(keyFilter(run[r].data[s][n], s), normalized_crypto_data)

\* C6: 20 records in one source, batch size 5, fault injection on, no store
\* rejection: the first run returns partial_success, its ledger entry has one
\* failed batch, batch number 2 with recordCount 5, and the stored checkpoint
\* is 10.
C6_S3FirstRun ==
    (/\ feed = FeedS3 /\ FAULT_INJECTION /\ faults = 0
     /\ job = 1 /\ Finished(1))
    => /\ run[1].pc = "returned" /\ run[1].status = "partial_success"
       /\ \E n \in EntriesOf(1) :
             /\ etlruns[n].status = "partial_success"
             /\ Len(etlruns[n].failed_batches) = 1
             /\ etlruns[n].failed_batches[1].source = "csv"
             /\ etlruns[n].failed_batches[1].batchNum = 2
             /\ etlruns[n].failed_batches[1].recordCount = 5
       /\ StoredIndex(1, "csv") = 10

\* C7: when a batch of a source failed, the run's failed_batches has an entry
\* with that source, the failing batch's number and the failing batch's
\* record count; the stored checkpoint does not cover the failing batch; and
\* by the end of the run every source has been processed.
C7_FailedBatchRecorded ==
    \A r \in RunIds : \A s \in SourceNames :
        (Finished(r) /\ run[r].status # "none" /\ LoopFailed(r, s))
        => LET failing == run[r].proc[s].failedBatches[1]
           IN  /\ \E n \in 1..Len(run[r].allFailedBatches) :
                     /\ run[r].allFailedBatches[n].source = s
                     /\ run[r].allFailedBatches[n].batchNum = failing.batchNum
                     /\ run[r].allFailedBatches[n].recordCount = failing.recordCount
               /\ StoredIndex(r, s) <= run[r].proc[s].i
               /\ Len(run[r].results) = Len(Sources)

\* C8: the status in a finished run's ledger entries is its one terminal
\* status: failed iff an error escaped before per-source processing was
\* complete, else success iff failed_batches is empty, else partial_success.
C8_TerminalStatus ==
    \A r \in RunIds : Finished(r) =>
        \A n \in EntriesOf(r) :
            etlruns[n].status =
                IF run[r].status = "none" THEN "failed"
                ELSE IF run[r].allFailedBatches = <<>> THEN "success"
                ELSE "partial_success"

\* C9: at most one run executes at any time, whatever trigger fires.
C9_AtMostOneRun ==
    Cardinality({r \in RunIds : Active(r)}) <= 1

\* C10: every natural key of the normalized collection is in the raw
\* collection, and a key enters the normalized collection only when the raw
\* write of that key has completed before.
C10_RawBeforeNormalized ==
    /\ [](Keys(normalized_crypto_data) \subseteq Keys(raw_crypto_data))
    /\ [][\A k \in Keys(normalized_crypto_data') \ Keys(normalized_crypto_data) :
             k \in Keys(raw_crypto_data)]_vars

\* a raw write was rejected, its record is in neither collection, and other
\* records are in both
C10_Witness ==
    \E r \in RunIds : \E s \in SourceNames :
        /\ run[r].proc[s].failedIds # <<>>
        /\ \E n \in 1..Len(run[r].data[s]) :
              /\ run[r].data[s][n].symbol = run[r].proc[s].failedIds[1]
              /\ keyFilter(run[r].data[s][n], s) \notin Keys(raw_crypto_data)
              /\ keyFilter(run[r].data[s][n], s) \notin Keys(normalized_crypto_data)
        /\ normalized_crypto_data # EmptyBag

\* the records fetched for source s by any run so far
Fetched(s) ==
    UNION {{run[q].data[s][n] : n \in 1..Len(run[q].data[s])} : q \in RunIds}

\* the latest run has returned success and no run is under way
LatestSucceeded ==
    /\ Quiet
    /\ nextRun > 0
    /\ run[nextRun].pc = "returned"
    /\ run[nextRun].status = "success"

\* C11: after a run that ended success, every valid record fetched so far for
\* a source with a timestamp at or below the source's watermark is in the raw
\* and in the normalized collection.
C11_NoGapBelowWatermark ==
    LatestSucceeded =>
        \A s \in SourceNames : \A rec \in Fetched(s) :
            LET watermark == getWatermark(normalized_crypto_data, s)
            IN  (rec.valid /\ watermark # Null /\ rec.timestamp <= watermark)
                => /\ BagIn(keyFilter(rec, s), raw_crypto_data)
                   /\ BagIn(keyFilter(rec, s), normalized_crypto_data)

\* run r repeats, on the same fetched data, a run that returned success
Rerun(r) ==
    /\ r > 1
    /\ run[r - 1].pc = "returned"
    /\ run[r - 1].status = "success"
    /\ Active(r)

\* the earlier run had no per-record write error
WroteAll(r) == \A s \in SourceNames : run[r].proc[s].failedIds = <<>>

ValidCount(data) == Cardinality({n \in 1..Len(data) : data[n].valid})

C13_OneDocumentPerKey ==
    Buildable(raw_crypto_data) /\ Buildable(normalized_crypto_data)

\* C14: when two consecutive runs on the same data have both returned
\* success and no store operation has rejected, GET /stats reports
\* incremental.last_run_new_records = 0.
C14_SecondRunNoNewRecords ==
    (/\ LatestSucceeded
     /\ faults = 0
     /\ nextRun > 1
     /\ run[nextRun - 1].pc = "returned"
     /\ run[nextRun - 1].status = "success"
     /\ etlruns # <<>>
     /\ etlruns[Len(etlruns)].run_id = nextRun)
    => last_run_new_records(etlruns) = 0

WritingRecords(r) ==
    run[r].pc \in {"record", "rawInsert", "normalized", "normalizedInsert"}

\* C15: a run works on the records of a batch only when the checkpoint of the
\* batch before is stored; and when a checkpoint is saved the record loop has
\* passed every record of the batch, each valid record above the watermark
\* being in both collections unless its write failed.
C15_WritesThenCheckpointThenNextBatch ==
    /\ [](\A r \in RunIds :
            (WritingRecords(r) /\ Frame(run[r]).i > 0)
            => StoredIndex(r, Src(run[r])) = Frame(run[r]).i)
    /\ [][\A c \in etlcheckpoints' \ etlcheckpoints :
            LET rr == run[c.runId]
                f == rr.proc[c.source]
                data == rr.data[c.source]
            IN  /\ f.j = f.i + BatchLen(f.i, Len(data))
                /\ c.lastProcessedIndex = f.j
                /\ \A n \in (f.i + 1)..f.j :
                      (/\ data[n].valid
                       /\ ~(f.watermark # Null /\ data[n].timestamp <= f.watermark)
                       /\ \A m \in 1..Len(f.failedIds) : f.failedIds[m] # data[n].symbol)
                      => /\ BagIn(keyFilter(data[n], c.source), raw_crypto_data)
                         /\ BagIn(keyFilter(data[n], c.source), normalized_crypto_data)]_vars

\* a record of the second batch is being written
C15_Witness ==
    \E r \in RunIds :
        /\ run[r].pc = "normalized"
        /\ Frame(run[r]).i = BATCH_SIZE
        /\ StoredIndex(r, Src(run[r])) = BATCH_SIZE

\* C16: a run that has a success entry in the ledger has no checkpoint left,
\* in every state: the entry is written after the checkpoints are cleared.
C16_LedgerAfterClear ==
    \A r \in RunIds :
        (\E n \in EntriesOf(r) : etlruns[n].status = "success")
        => getAllCheckpoints(etlcheckpoints, r) = {}

\* the indices the pass of run r over source s has gone through
Processed(r, s) == 0 .. (run[r].proc[s].j - 1)

\* the indices a pass that starts at the stored checkpoint goes through
Resumed(r, s) == PassIndices(StoredIndex(r, s), Len(run[r].data[s]))

AllIndices(r, s) == 0 .. (Len(run[r].data[s]) - 1)

\* C17: when the pass over a source has stopped at a failed batch, the stored
\* checkpoint is the count of records of the batches before it, and the
\* indices the pass went through and the indices of a pass from the stored
\* checkpoint cover the sequence and share no index: no record is skipped and
\* none is reprocessed.
C17_ExactlyOnceAcrossResume ==
    \A r \in RunIds : \A s \in SourceNames :
        LoopFailed(r, s)
        => /\ StoredIndex(r, s) = run[r].proc[s].i
           /\ Processed(r, s) \cup Resumed(r, s) = AllIndices(r, s)
           /\ Processed(r, s) \cap Resumed(r, s) = {}

----------------------------------------------------------------------------
(* The rate gate *)

\* an invocation issues its HTTP request in this step
Issues(c) == calls[c].pc # "axios.get" /\ calls'[c].pc = "axios.get"

\* C18: the bucket starts full, in every reachable state of the bucket,
\* interleaved invocations included, 0 <= tokens <= burstCapacity, and a
\* step that issues an HTTP request found at least one token after the refill
\* and took exactly one
C18_TokensWithinBucket ==
    /\ limiter.tokens = limiter.burstCapacity
    /\ [](0 <= limiter.tokens /\ limiter.tokens <= limiter.burstCapacity)
    /\ [][\A c \in CallIds : Issues(c) =>
            /\ Refill(limiter, now).tokens >= 1
            /\ limiter'.tokens = Refill(limiter, now).tokens - 1]_vars

\* the bucket is empty while one invocation waits for its response and
\* another one sleeps
C18_Witness ==
    /\ limiter.tokens = 0
    /\ \E c, d \in CallIds : calls[c].pc = "axios.get" /\ calls[d].pc = "setTimeout"

\* C19: of five back-to-back requests against 3 per minute with a burst of 3,
\* the first three are never throttled, and the fourth and the fifth each
\* count one throttle event and one observed backoff sleep, never more, and
\* exactly one of each once they have returned
C19_FourthAndFifthThrottledOnce ==
    /\ \A c \in 1..ThreePerMinute.burstCapacity :
          calls[c].throttled = 0 /\ calls[c].slept = 0
    /\ \A c \in (ThreePerMinute.burstCapacity + 1)..TestRequests :
          /\ calls[c].throttled <= 1
          /\ calls[c].slept <= 1
          /\ calls[c].pc = "done" => calls[c].throttled = 1 /\ calls[c].slept = 1

\* C20: one invocation of the gate sleeps the backoff at most once: an
\* invocation that has slept does not go to sleep again
C20_SleepsAtMostOnce ==
    \A c \in CallIds :
        /\ calls[c].slept <= 1
        /\ calls[c].slept = 1 => calls[c].pc # "setTimeout"

\* invocation c finds the bucket empty in this step
Throttled(c) == calls'[c].throttled = calls[c].throttled + 1

\* invocation c returns the cached payload in this step
ReturnsCached(c) == calls[c].result # "cachedData" /\ calls'[c].result = "cachedData"

\* C21: an invocation that finds the bucket empty while the cache holds a
\* payload not older than 60 s returns it in the same step: no sleep, no
\* token taken, no HTTP request; the cached payload is returned in no other
\* case; an entry older than 60 s is not returned and is evicted by the read;
\* and the cache is written only when an HTTP request succeeds.
C21_CachedPayloadWhenExhausted ==
    /\ [][\A c \in CallIds :
            /\ (Throttled(c) /\ cache # Null /\ now <= cache)
               => /\ ReturnsCached(c)
                  /\ calls'[c].pc = "done"
                  /\ calls'[c].requests = calls[c].requests
                  /\ limiter'.tokens = Refill(limiter, now).tokens
                  /\ cache' = cache
            /\ ReturnsCached(c)
               => /\ Throttled(c)
                  /\ Refill(limiter, now).tokens <= 0
                  /\ cache # Null /\ now - (cache - STD_TTL_MS) <= STD_TTL_MS
            /\ (Throttled(c) /\ cache # Null /\ now > cache)
               => /\ cache' = Null
                  /\ calls'[c].pc = "setTimeout"
                  /\ calls'[c].result = "none"]_vars
    /\ [][cache' # cache /\ cache' # Null
          => \E c \in CallIds :
                /\ calls[c].pc = "axios.get"
                /\ calls'[c].result = "response.data"
                /\ cache' = now + STD_TTL_MS]_vars

\* an invocation found the bucket empty and the payload of an earlier
\* successful request expired: the entry is gone and the invocation sleeps
C21_Witness ==
    /\ cache = Null
    /\ now > STD_TTL_MS
    /\ \E c, d \in CallIds :
          /\ calls[c].result = "response.data"
          /\ calls[d].pc = "setTimeout"
          /\ calls[d].retryStart = now


\* C23: the similarity function is symmetric, gives 1.0 for a field name
\* compared with itself (the empty name included) and stays within [0, 1].
C23_SimilaritySymmetricReflexive ==
    similarity.called =>
        /\ Same(similarity.value,
                calculateSimilarity(similarity.field2, similarity.field1))
        /\ similarity.field1 = similarity.field2 => Same(similarity.value, <<1, 1>>)
        /\ 0 <= similarity.value[1]
        /\ similarity.value[1] <= similarity.value[2]
        /\ similarity.value[2] > 0


InSeq(x, seq) == \E n \in 1..Len(seq) : seq[n] = x

\* C22: a mapping found by drift detection lands in the tier of its
\* confidence (applied from 0.8, quarantined from 0.5 up to 0.8, skipped
\* below 0.5), and the quarantined and skipped mappings detected in a run are
\* in that run's ledger entry under quarantined_mappings and skipped_mappings.
C22_TiersReachLedger ==
    /\ \A n \in 1..Len(driftRun.driftResult) :
          LET r == driftRun.driftResult[n]
          IN  /\ \A k \in 1..Len(r.applied_mappings) :
                    r.applied_mappings[k].confidence >= AUTO_MAP
              /\ \A k \in 1..Len(r.quarantined_mappings) :
                    /\ r.quarantined_mappings[k].confidence >= QUARANTINE
                    /\ r.quarantined_mappings[k].confidence < AUTO_MAP
              /\ \A k \in 1..Len(r.skipped_mappings) :
                    r.skipped_mappings[k].confidence < SKIP
    /\ driftRun.pc = "logged" =>
          \A n \in 1..Len(driftRun.driftResult) :
              LET r == driftRun.driftResult[n]
                  entry == driftLedger[Len(driftLedger)]
              IN  /\ \A k \in 1..Len(r.quarantined_mappings) :
                        InSeq(r.quarantined_mappings[k], entry.quarantined_mappings)
                  /\ \A k \in 1..Len(r.skipped_mappings) :
                        InSeq(r.skipped_mappings[k], entry.skipped_mappings)


\* C24: the schema_version reported for a source goes up by exactly 1 when a
\* detectDrift call finds that source's schema different from its stored
\* snapshot, and is the same as before when the schema is equal or seen for
\* the first time, whatever was detected on the other sources.
C24_VersionPerSource ==
    [][\A s \in SourceNames :
          LET drift == knownSchemas[s].seen /\ knownSchemas'[s] # knownSchemas[s]
          IN  reported'[s] = reported[s] + (IF drift THEN 1 ELSE 0)]_vars


\* the timestamp column of the row is no alias and its best match is the
\* unified timestamp with a confidence in the quarantine tier
TimestampQuarantined(row) ==
    /\ ~IsAlias(row[3][1])
    /\ bestOf(row[3][1]).to = unifiedFields[7]
    /\ AtLeast(bestOf(row[3][1]).confidence, QUARANTINE)
    /\ ~AtLeast(bestOf(row[3][1]).confidence, AUTO_MAP)

\* C29: a row whose only timestamp-like column matches the unified timestamp
\* with quarantine confidence gives a record without timestamp, which fails
\* validation and is written to neither collection.
C29_QuarantinedTimestampAbsent ==
    csvRow.pc = "loaded" /\ TimestampQuarantined(csvRow.row) =>
        LET record == csvRow.record
            key == <<record.symbol, record.timestamp, record.source>>
        IN  /\ record.timestamp \in {"undefined", "null"}
            /\ ~csvRow.valid
            /\ ~BagIn(key, raw_crypto_data)
            /\ ~BagIn(key, normalized_crypto_data)


\* the insert half of run r's upsert into collection c meets a document with
\* the same natural key under the unique index: a duplicate key error
DuplicateKey(r, c, coll) ==
    /\ run[r].pc = (IF c = "raw_crypto_data" THEN "rawInsert" ELSE "normalizedInsert")
    /\ HasIndex(c)
    /\ ~Frame(run[r]).matched
    /\ BagIn(keyFilter(Current(run[r]), Src(run[r])), coll)

\* C25: a unique-index violation raised by an upsert counts as a success:
\* the record is not added to the run's failed ids, and the run goes on with
\* the next write as after a matched document.
C25_DuplicateKeyIsSuccess ==
    [][\A r \in RunIds :
          /\ (DuplicateKey(r, "raw_crypto_data", raw_crypto_data) /\ run'[r] # run[r])
             => /\ run'[r].proc[Src(run[r])].failedIds = Frame(run[r]).failedIds
                /\ run'[r].pc = "normalized"
          /\ (DuplicateKey(r, "normalized_crypto_data", normalized_crypto_data)
              /\ run'[r] # run[r])
             => /\ run'[r].proc[Src(run[r])].failedIds = Frame(run[r]).failedIds
                /\ run'[r].pc = "record"]_vars


\* this step is an updateOne of run r on a record of a batch that rejects
\* with a store error
WriteRejected(r) ==
    /\ \/ run[r].pc = "record" /\ InBatch(run[r])
       \/ run[r].pc = "normalized"
    /\ run'[r] # run[r]
    /\ faults' = faults + 1

\* C26: a store error raised while a record of a batch is written makes the
\* batch a failed batch: it is appended to the source's and the run's
\* failed_batches (so the run ends partial_success), no checkpoint is saved
\* for it, and the source's loop stops.
C26_WriteErrorFailsBatch ==
    [][\A r \in RunIds :
          WriteRejected(r) =>
              LET s == Src(run[r])
              IN  /\ Len(run'[r].proc[s].failedBatches) =
                         Len(run[r].proc[s].failedBatches) + 1
                  /\ Len(run'[r].allFailedBatches) = Len(run[r].allFailedBatches) + 1
                  /\ etlcheckpoints' = etlcheckpoints
                  /\ run'[r].pc \notin {"record", "normalized"}]_vars


\* run r threw with an error that escaped before the loop over the sources
EscapedBeforeSources(r) == run[r].pc = "threw" /\ run[r].results = <<>>

\* C27: when an error escapes before per-source processing (the database is
\* unreachable at run start, or the fetch rejects), the run throws to its
\* caller with a ledger entry of status failed for its run id, and up to
\* there its steps write no record and create or clear no checkpoint.
C27_FailedBeforeSources ==
    /\ [](\A r \in RunIds :
             EscapedBeforeSources(r) =>
                 \E n \in EntriesOf(r) : etlruns[n].status = "failed")
    /\ [][\A r \in RunIds :
             (run[r].results = <<>> /\ run'[r] # run[r]
              /\ run[r].pc \in {"connect", "createIndex", "fetch", "catch"})
             => UNCHANGED <<raw_crypto_data, normalized_crypto_data,
                            etlcheckpoints>>]_vars


\* C28: skipping is record-wise.  The watermark is read once per source,
\* before its batch loop.  A valid record is skipped, which adds 1 to the
\* skipped count and writes nothing, exactly when there is a watermark and
\* the record's timestamp is not above it; any other valid record is
\* upserted into the raw collection, wherever it is in the sequence.
C28_RecordWiseWatermark ==
    [][\A r \in RunIds :
          LET rr == run[r]
              s == Src(rr)
              f == Frame(rr)
              after == run'[r].proc[s]
              key == keyFilter(Current(rr), s)
              old == f.watermark # Null /\ Current(rr).timestamp <= f.watermark
          IN  /\ (rr.pc = "record" /\ InBatch(rr) /\ Current(rr).valid /\ run'[r] # rr)
                 => IF old
                    THEN /\ after.skippedCount = f.skippedCount + 1
                         /\ after.j = f.j + 1
                         /\ after.failedIds = f.failedIds
                         /\ UNCHANGED <<raw_crypto_data, normalized_crypto_data, faults>>
                    ELSE /\ after.skippedCount = f.skippedCount
                         /\ \/ /\ run'[r].pc = "normalized"
                               /\ raw_crypto_data' =
                                     upsert(raw_crypto_data, key, BagIn(key, raw_crypto_data))
                            \/ /\ run'[r].pc = "rawInsert"
                               /\ after.matched = BagIn(key, raw_crypto_data)
                            \/ /\ faults' = faults + 1
                               /\ after.failedIds = Append(f.failedIds, Current(rr).symbol)
              /\ (rr.pc \in {"batch", "record", "rawInsert", "normalized",
                             "normalizedInsert"}
                  /\ run'[r].srcIdx = rr.srcIdx)
                 => after.watermark = f.watermark]_vars

\* a run with a watermark writes a record newer than the watermark after it
\* skipped a record, and a record not newer than the watermark comes later
C28_Witness ==
    \E r \in RunIds :
        /\ run[r].pc = "normalized"
        /\ Frame(run[r]).watermark # Null
        /\ Frame(run[r]).skippedCount > 0
        /\ Current(run[r]).timestamp > Frame(run[r]).watermark
        /\ \E n \in (Frame(run[r]).j + 2)..Len(run[r].data[Src(run[r])]) :
              run[r].data[Src(run[r])][n].timestamp <= Frame(run[r]).watermark


\* the entries of run r's results for source s
ResultsOf(r, s) == {n \in 1..Len(run[r].results) : run[r].results[n].source = s}

C31_RawDataVerbatim ==
    csvRow.pc \in {"results", "loaded"} => csvRow.record.raw_data = csvRow.row


\* run r is past its fetch and has not failed as a whole
PastFetch(r) ==
    run[r].pc \in {"getCheckpoint", "getWatermark", "batch", "record", "rawInsert",
                   "normalized", "normalizedInsert", "summary", "logETLRun",
                   "clearCheckpoints", "returned"}

\* C32: when the HTTP request of an admitted call fails, the call returns
\* the empty payload with no further request, the token it took stays taken
\* and the cache entry of the source stays as it was; the run that made the
\* call has no record of that source, has the records of the other sources,
\* and when it returns it has a result for every source, with 0 rows and no
\* failed id for the source of the call.
C32_FailedRequestIsEmptyFetch ==
    /\ [][\A c \in CallIds :
             (calls[c].pc = "axios.get" /\ calls'[c].result = "[]")
             => /\ calls'[c].pc = "done"
                /\ calls'[c].requests = calls[c].requests
                /\ limiter' = limiter
                /\ cache' = cache
                /\ throttleEventsTotal' = throttleEventsTotal]_vars
    /\ [](\A r \in RunIds :
             (PastFetch(r) /\ calls[run[r].call].result = "[]")
             => /\ run[r].data["coingecko"] = <<>>
                /\ \A s \in SourceNames \ {"coingecko"} : run[r].data[s] = feed[s]
                /\ run[r].pc = "returned" =>
                      /\ \A s \in SourceNames : ResultsOf(r, s) # {}
                      /\ \A n \in ResultsOf(r, "coingecko") :
                            /\ run[r].results[n].totalProcessed = 0
                            /\ run[r].results[n].failedIds = <<>>)

\* a run whose coingecko request failed returned success with the record of
\* another source, and the token of the request is gone
C32_Witness ==
    \E r \in RunIds :
        /\ run[r].pc = "returned" /\ run[r].status = "success"
        /\ run[r].call # 0 /\ calls[run[r].call].result = "[]"
        /\ run[r].totalRowsProcessed > 0
        /\ limiter.tokens < limiter.burstCapacity
        /\ cache = Null


\* this step runs the bucket check of rateLimitedRequest
BucketChecked ==
    \/ nextCall' # nextCall
    \/ \E c \in CallIds : calls[c].pc = "setTimeout" /\ calls'[c].pc # "setTimeout"

\* C33: a bucket check refills with tokensToAdd = floor((now - lastRefill) /
\* 60000 * limit): when that is positive, tokens becomes the minimum of the
\* burst capacity and tokens + tokensToAdd and lastRefill becomes now, else
\* both stay (before the token of an admitted request is taken).  Over any
\* interval the requests admitted are at most burstCapacity +
\* floor(elapsed / 60000 * limit).
C33_LazyRefillBoundsAdmissions ==
    /\ [][BucketChecked =>
            LET tokensToAdd == ((now - limiter.lastRefill) * limiter.limit) \div 60000
                tokens == IF tokensToAdd > 0
                          THEN Min(limiter.burstCapacity, limiter.tokens + tokensToAdd)
                          ELSE limiter.tokens
            IN  /\ limiter'.lastRefill =
                       IF tokensToAdd > 0 THEN now ELSE limiter.lastRefill
                /\ limiter'.tokens = IF tokens > 0 THEN tokens - 1 ELSE tokens]_vars
    /\ [](admittedSince.open =>
             admittedSince.admitted <=
                 limiter.burstCapacity +
                 ((now - admittedSince.from) * limiter.limit) \div 60000)


C35_LockReleased ==
    /\ [](isRunning <=> job # 0)
    /\ [][(job # 0 /\ job' = 0) => ~isRunning']_vars
    /\ [](job = 0 /\ nextRun < MaxJobs => ENABLED (~isRunning /\ nextRun' = nextRun + 1))

\* a job runs after the job that sent the alert
C35_Witness == alerts = 1 /\ failureCount = 0 /\ isRunning /\ job # 0


\* C37: clearCheckpoints(runId) removes the checkpoints tagged with that run
\* id and no other; saveCheckpoint of a run for a source creates or replaces
\* the document of that run and source only; getCheckpoint of a run reads
\* what the run's own documents say. So every document that a step adds,
\* replaces or removes is tagged with the run that takes the step, also
\* while another run is under way.
C37_RunsKeepToOwnCheckpoints ==
    /\ [][\A r \in RunIds :
            /\ (run[r].pc = "clearCheckpoints" /\ run'[r].pc = "returned")
                => /\ etlcheckpoints' \subseteq etlcheckpoints
                   /\ etlcheckpoints \ etlcheckpoints'
                          = getAllCheckpoints(etlcheckpoints, r)
            /\ (run[r].pc = "record" /\ run'[r].pc = "batch")
                => /\ Cardinality(etlcheckpoints' \ etlcheckpoints) <= 1
                   /\ \A c \in (etlcheckpoints' \ etlcheckpoints)
                               \cup (etlcheckpoints \ etlcheckpoints') :
                          /\ c.runId = r
                          /\ c.source = Src(run[r])
                          /\ c.batchId = BatchId(r, Src(run[r]))
            /\ (run[r].pc = "getCheckpoint" /\ run'[r].pc = "getWatermark")
                => Frame(run'[r]).lastIndex =
                       getCheckpoint(getAllCheckpoints(etlcheckpoints, r),
                                     BatchId(r, Src(run[r])), Src(run[r]))]_vars
    /\ [][\A c \in (etlcheckpoints' \ etlcheckpoints)
                    \cup (etlcheckpoints \ etlcheckpoints') :
            run'[c.runId] # run[c.runId]]_vars
    /\ [](\A c \in etlcheckpoints : \A d \in etlcheckpoints :
            (c.batchId = d.batchId /\ c.source = d.source) => c = d)

\* a run has cleared its checkpoints and returned while another run, under
\* way, still has its checkpoint in the store
C37_Witness ==
    \E r \in RunIds : \E q \in RunIds \ {r} :
        /\ run[r].pc = "returned"
        /\ \E s \in SourceNames : run[r].proc[s].i > 0
        /\ getAllCheckpoints(etlcheckpoints, r) = {}
        /\ Active(q)
        /\ getAllCheckpoints(etlcheckpoints, q) # {}


\* C38: for a source whose schema is known, detectDrift on no records
\* leaves the stored snapshot and the schema version as they are and
\* reports no mapping, and a detectDrift after it on records of the
\* snapshot's schema reports no change at the version there was.
C38_EmptyFetchKeepsSnapshot ==
    \A s \in SourceNames :
        knownSchemas[s].seen =>
            LET empty == detectDrift(knownSchemas, schemaVersion, s, <<>>)
                again == detectDrift(empty.knownSchemas, empty.schemaVersion, s,
                                     <<knownSchemas[s].schema>>)
            IN  /\ empty.knownSchemas = knownSchemas
                /\ empty.schemaVersion = schemaVersion
                /\ empty.result.applied_mappings = <<>>
                /\ empty.result.quarantined_mappings = <<>>
                /\ empty.result.skipped_mappings = <<>>
                /\ ~again.result.hasChanges
                /\ again.result.schema_version = schemaVersion
                /\ again.knownSchemas = knownSchemas

\* C38 in the run: a step of the loop that empties the snapshot of a source
\* whose schema was known does not raise the version.
C38_EmptyFetchInRun ==
    [][\A s \in SourceNames :
          (/\ knownSchemas[s].seen
           /\ knownSchemas[s].schema # <<>>
           /\ knownSchemas'[s].schema = <<>>)
          => schemaVersion' = schemaVersion]_vars


\* the records of source s that run r has gone through in its batch loop
VisitedBy(r, s) ==
    LET f == run[r].proc[s]
        len == Len(run[r].data[s])
    IN  IF \E n \in ResultsOf(r, s) : run[r].results[n].failedBatches = <<>>
        THEN len - f.lastIndex
        ELSE IF f.failedBatches = <<>> THEN 0
        ELSE IF f.failedBatches[1].error = "saveCheckpoint rejected"
        THEN f.i + BatchLen(f.i, len) - f.lastIndex
        ELSE f.i - f.lastIndex

\* the upserts of run r into normalized_crypto_data for source s: a record
\* gone through is counted as invalid, skipped by the watermark, pushed on
\* failedIds, or it is upserted
UpsertedBy(r, s) ==
    LET f == run[r].proc[s]
    IN  VisitedBy(r, s) - f.validationErrors - f.skippedCount - Len(f.failedIds)

UpsertedByRun(r) ==
    SumOver([n \in 1..Len(Sources) |-> UpsertedBy(r, Sources[n])], Len(Sources))

\* C39: rows_processed of the ledger entry that a run writes at its end is
\* the number of records the run upserted into normalized_crypto_data;
\* records that failed validation, were skipped by the watermark or whose
\* write failed are not in it.
C39_RowsProcessedCountsUpserts ==
    \A r \in RunIds : \A n \in EntriesOf(r) :
        etlruns[n].status \in {"success", "partial_success"}
        => etlruns[n].rows_processed = UpsertedByRun(r)

\* what the code keeps for a run of status success: the records gone through
\* less the ones the watermark skipped, the invalid and failed ones included
RowsProcessedOfSuccess ==
    \A r \in RunIds : \A n \in EntriesOf(r) :
        etlruns[n].status = "success"
        => etlruns[n].rows_processed =
              UpsertedByRun(r) + run[r].totalErrors


\* C36: every invocation of rateLimitedRequest for the configured source
\* that is waiting for its timer or for its response eventually returns,
\* whatever the other invocations do with the tokens, and an invocation for
\* an unknown source throws and leaves the bucket and the cache as they are.
C36_EveryInvocationReturns ==
    /\ \A c \in Pending :
          (calls[c].pc \in {"setTimeout", "axios.get"}) ~> (calls[c].pc = "done")
    /\ [][\A c \in Pending :
            (calls'[c] # calls[c] /\ calls'[c].result = "Unknown source")
            => /\ limiter' = limiter
               /\ cache' = cache
               /\ calls'[c].pc = "done"]_vars

\* C36, the part on the request: an invocation whose request has been sent
\* returns
C36_SentRequestReturns ==
    \A c \in Pending : (calls[c].pc = "axios.get") ~> (calls[c].pc = "done")

====
